---- MODULE Spec2Model ----
(***************************************************************************)
(* A model of the query-processing engine of c-ares, src/lib/ares_process.c *)
(* The channel state (servers, connections, queries and the three query    *)
(* indices) is the state; every public entry point is one action whose      *)
(* effect is computed by operators translated function by function from the *)
(* C source.  Operators take and return a record holding the channel state, *)
(* so that a whole handler, with every call it makes, is one step.          *)
(***************************************************************************)
EXTENDS Integers, Sequences, FiniteSets, TLC

(* ------------------------------ bounds --------------------------------- *)
NumServers == 2      \* servers configured on the channel
Tries      == 1
MaxQueries  == 2     \* queries ever submitted (qids 1..MaxQueries)
SoloQueries == 1     \* queries submitted where one query is followed alone
MaxConns   == 3
MaxSec     == 1
MaxQuestions == 2

NULL == 0

Servers == 1..NumServers
Qids    == 1..MaxQueries
ConnIds == 1..MaxConns

(* One clock step and the base server timeout, in milliseconds.  Half a    *)
(* second makes timeadd carry microseconds into seconds every other step.  *)
StepMs == 1000 \div 2

(* ------------------------------ statuses ------------------------------- *)
SUCCESS      == "ARES_SUCCESS"
ENOMEM       == "ARES_ENOMEM"
ENOSERVER    == "ARES_ENOSERVER"
ECONNREFUSED == "ARES_ECONNREFUSED"
EBADFAMILY   == "ARES_EBADFAMILY"
EBADRESP     == "ARES_EBADRESP"
EBADNAME     == "ARES_EBADNAME"
ESERVFAIL    == "ARES_ESERVFAIL"
ENOTIMP      == "ARES_ENOTIMP"
EREFUSED     == "ARES_EREFUSED"
EFORMERR     == "ARES_EFORMERR"
ETIMEOUT     == "ARES_ETIMEOUT"

FLAG_IGNTC       == "ARES_FLAG_IGNTC"
FLAG_NOCHECKRESP == "ARES_FLAG_NOCHECKRESP"
FLAG_DNS0x20     == "ARES_FLAG_DNS0x20"

(* ------------------------------ sequences ------------------------------ *)
SeqRemove(seq, x) == SelectSeq(seq, LAMBDA y : y # x)

SeqElems(seq) == {seq[i] : i \in 1..Len(seq)}

InsertAt(seq, i, x) == SubSeq(seq, 1, i - 1) \o <<x>> \o SubSeq(seq, i, Len(seq))

(* ------------------------------ time ----------------------------------- *)
(* ares_timeval_t: seconds and microseconds. *)
TimeZero == [sec |-> 0, usec |-> 0]

timedout_strict(now, check) ==
  LET secs == now.sec - check.sec
  IN  IF secs > 0 THEN TRUE
      ELSE IF secs < 0 THEN FALSE
      ELSE now.usec - check.usec > 0

timedout(now, check) ==
  LET secs == now.sec - check.sec
  IN  IF secs > 0 THEN TRUE
      ELSE IF secs < 0 THEN FALSE
      ELSE now.usec - check.usec >= 0

timeadd(now, millisecs) ==
  LET sec1  == now.sec + (millisecs \div 1000)
      usec1 == now.usec + (millisecs % 1000) * 1000
  IN  IF usec1 >= 1000000
      THEN [sec |-> sec1 + (usec1 \div 1000000), usec |-> usec1 % 1000000]
      ELSE [sec |-> sec1, usec |-> usec1]

(* strict order on deadlines, the comparator of queries_by_timeout *)
TimeLess(a, b) == a.sec < b.sec \/ (a.sec = b.sec /\ a.usec < b.usec)

(* the random 16-bit values the environment draws from (ares__rand_bytes) *)
USHRT_MAX  == 65535
RandShorts == {0, USHRT_MAX}

(* ------------------------------ records -------------------------------- *)
(* ares_query_t before submission, and after ares__free_query *)
BlankQuery(st) ==
  [st |-> st, using_tcp |-> FALSE, try_count |-> 0, timeouts |-> 0,
   ts |-> TimeZero, timeout |-> TimeZero, conn |-> NULL, opt |-> FALSE,
   error_status |-> SUCCESS, no_retries |-> FALSE]

(* an unused connection slot *)
BlankConn ==
  [open |-> FALSE, server |-> NULL, tcp |-> FALSE, connected |-> FALSE,
   total |-> 0, queue |-> <<>>, out |-> FALSE]

Log(s, e) == [s EXCEPT !.log = Append(@, e)]

Ret(s, status) == [s EXCEPT !.ret = status]

(* ares__tvnow(): the clock read by a callee during a handler *)
tvnow(s) == s.wall

(* ------------------------------ servers -------------------------------- *)
(* comparator of channel->servers: (consec_failures, idx) ascending *)
ServerLess(srv, a, b) ==
  \/ srv[a].consec_failures < srv[b].consec_failures
  \/ /\ srv[a].consec_failures = srv[b].consec_failures
     /\ a < b

(* ares__slist_node_reinsert: unlink the node, insert it where it sorts *)
SlistReinsert(order, srv, x) ==
  LET rest == SeqRemove(order, x)
      ge   == {i \in 1..Len(rest) : ~ServerLess(srv, rest[i], x)}
      pos  == IF ge = {} THEN Len(rest) + 1
              ELSE CHOOSE i \in ge : \A j \in ge : i <= j
  IN  InsertAt(rest, pos, x)

server_increment_failures_unsorted(s, sv, used_tcp) ==
  IF sv \notin SeqElems(s.order) THEN s
  ELSE
    LET srv1 == [s.srv EXCEPT ![sv].consec_failures = @ + 1]
        srv2 == [srv1 EXCEPT ![sv].next_retry_time =
                                 timeadd(tvnow(s), s.ch.server_retry_delay)]
    IN  Log([s EXCEPT !.srv = srv2],
            [e |-> "fail", sv |-> sv, tcp |-> used_tcp,
             fails |-> srv2[sv].consec_failures,
             retry |-> srv2[sv].next_retry_time])

server_increment_failures(s, sv, used_tcp) ==
  IF sv \notin SeqElems(s.order) THEN s
  ELSE
    LET srv1 == [s.srv EXCEPT ![sv].consec_failures = @ + 1]
        srv2 == [srv1 EXCEPT ![sv].next_retry_time =
                                 timeadd(tvnow(s), s.ch.server_retry_delay)]
    IN  Log([s EXCEPT !.srv = srv2, !.order = SlistReinsert(s.order, srv1, sv)],
            [e |-> "fail", sv |-> sv, tcp |-> used_tcp,
             fails |-> srv2[sv].consec_failures,
             retry |-> srv2[sv].next_retry_time])

server_set_good_keep(s, sv, used_tcp) ==
  IF sv \notin SeqElems(s.order) THEN s
  ELSE
    LET srv2 == [s.srv EXCEPT ![sv].next_retry_time = TimeZero]
    IN  Log([s EXCEPT !.srv = srv2],
            [e |-> "good", sv |-> sv, tcp |-> used_tcp,
             fails |-> srv2[sv].consec_failures,
             retry |-> srv2[sv].next_retry_time])

server_set_good(s, sv, used_tcp) ==
  IF sv \notin SeqElems(s.order) THEN s
  ELSE
    LET srv1 == IF s.srv[sv].consec_failures > 0
                THEN [s.srv EXCEPT ![sv].consec_failures = 0]
                ELSE s.srv
        ord1 == IF s.srv[sv].consec_failures > 0
                THEN SlistReinsert(s.order, srv1, sv)
                ELSE s.order
        srv2 == [srv1 EXCEPT ![sv].next_retry_time = TimeZero]
    IN  Log([s EXCEPT !.srv = srv2, !.order = ord1],
            [e |-> "good", sv |-> sv, tcp |-> used_tcp,
             fails |-> srv2[sv].consec_failures,
             retry |-> srv2[sv].next_retry_time])

(* ares__random_server: the c'th server of the list, c a random byte *)
ares__random_server(s) ==
  LET num_servers == Len(s.order)
  IN  IF num_servers = 0 THEN NULL
      ELSE s.order[(s.o.rbyte % num_servers) + 1]

failover_server_eager(s) ==
  IF s.order = <<>> THEN NULL
  ELSE
    LET first_server == s.order[1]
        last_server  == s.order[Len(s.order)]
        cand == {i \in 1..Len(s.order) :
                   s.srv[s.order[i]].consec_failures > 0}
    IN  IF s.srv[last_server].consec_failures = 0 THEN first_server
        ELSE IF s.ch.server_retry_chance = 0 THEN first_server
        ELSE IF s.o.rfail % s.ch.server_retry_chance = 0 /\ cand # {}
             THEN s.order[CHOOSE i \in cand : \A j \in cand : i <= j]
        ELSE first_server

ares__failover_server(s) ==
  IF s.order = <<>> THEN NULL
  ELSE
    LET first_server == s.order[1]
        last_server  == s.order[Len(s.order)]
        cand == {i \in 1..Len(s.order) :
                   /\ s.srv[s.order[i]].consec_failures > 0
                   /\ timedout(tvnow(s), s.srv[s.order[i]].next_retry_time)}
    IN  IF s.srv[last_server].consec_failures = 0 THEN first_server
        ELSE IF s.ch.server_retry_chance = 0 THEN first_server
        ELSE IF s.o.rfail % s.ch.server_retry_chance = 0 /\ cand # {}
             THEN s.order[CHOOSE i \in cand : \A j \in cand : i <= j]
        ELSE first_server

(* ares_metrics_server_timeout: the configured timeout (no latency samples) *)
ares_metrics_server_timeout(s, sv) == s.ch.timeout

RECURSIVE Pow2(_)
Pow2(n) == IF n = 0 THEN 1 ELSE 2 * Pow2(n - 1)

(* the computation without its last step, the floor at the base timeout *)
calc_query_timeout_unclamped(s, q, sv) ==
  LET timeout == ares_metrics_server_timeout(s, sv)
      rounds  == s.q[q].try_count \div Len(s.order)
      shifted == IF rounds > 0 THEN timeout * Pow2(rounds) ELSE timeout
      capped  == IF s.ch.maxtimeout # 0 /\ shifted > s.ch.maxtimeout
                 THEN s.ch.maxtimeout ELSE shifted
  IN  IF rounds > 0
      THEN capped - ((capped * s.o.rjit) \div (2 * USHRT_MAX))
      ELSE capped

ares__calc_query_timeout(s, q, sv) ==
  LET timeout     == ares_metrics_server_timeout(s, sv)
      num_servers == Len(s.order)
      rounds      == IF num_servers = 0 THEN 0
                     ELSE s.q[q].try_count \div num_servers
      shifted     == IF rounds > 0 THEN timeout * Pow2(rounds) ELSE timeout
      capped      == IF s.ch.maxtimeout # 0 /\ shifted > s.ch.maxtimeout
                     THEN s.ch.maxtimeout ELSE shifted
      (* (size_t)((float)timeplus * ((float)r / USHRT_MAX) * 0.5f) *)
      jittered    == IF rounds > 0
                     THEN capped - ((capped * s.o.rjit) \div (2 * USHRT_MAX))
                     ELSE capped
  IN  IF num_servers = 0 THEN 0
      ELSE IF jittered < timeout THEN timeout ELSE jittered


(* ------------------------------ query table ---------------------------- *)
InSomeQueue(s, q) == \E c \in ConnIds : q \in SeqElems(s.conn[c].queue)

(* ares__llist_node_destroy(query->node_queries_to_conn) *)
UnlinkFromConn(s, q) ==
  [s EXCEPT !.conn = [c \in ConnIds |->
                        [s.conn[c] EXCEPT !.queue = SeqRemove(@, q)]]]

(* ares__slist_node_destroy(query->node_queries_by_timeout) *)
UnlinkFromTimeouts(s, q) == [s EXCEPT !.tq = SeqRemove(@, q)]

(* ares__slist_insert(channel->queries_by_timeout, query): the new node goes *)
(* before the first node whose deadline is not smaller                      *)
timeout_insert_skipped(s, q) == s

timeout_insert_last(s, q) == [s EXCEPT !.tq = Append(@, q)]

TimeoutInsert(s, q) ==
  LET ge  == {i \in 1..Len(s.tq) :
                ~TimeLess(s.q[s.tq[i]].timeout, s.q[q].timeout)}
      pos == IF ge = {} THEN Len(s.tq) + 1
             ELSE CHOOSE i \in ge : \A j \in ge : i <= j
  IN  [s EXCEPT !.tq = InsertAt(@, pos, q)]

(* the three indexes of the query table a requeue works on *)
Indexes(s) == <<s.byqid, s.tq, [c \in ConnIds |-> s.conn[c].queue]>>

query_remove_from_conn_and_table(s, q) ==
  [UnlinkFromConn(UnlinkFromTimeouts(s, q), q) EXCEPT !.q[q].conn = NULL,
                                                      !.byqid = @ \ {q}]

(* the detaching that makes the query a UDP query again *)
query_remove_back_to_udp(s, q) ==
  [UnlinkFromConn(UnlinkFromTimeouts(s, q), q) EXCEPT
     !.q[q].conn = NULL, !.q[q].using_tcp = FALSE]

ares__query_remove_from_conn(s, q) ==
  [UnlinkFromConn(UnlinkFromTimeouts(s, q), q) EXCEPT !.q[q].conn = NULL]

ares_detach_query(s, q) ==
  [ares__query_remove_from_conn(s, q) EXCEPT !.byqid = @ \ {q},
                                             !.allq  = @ \ {q}]

ares__free_query(s, q) ==
  [ares_detach_query(s, q) EXCEPT !.q[q] = BlankQuery("done"),
                                  !.sends[q] = 0]

(* ares_queue_notify_empty: tell the observer when no query is left *)
ares_queue_notify_empty(s) ==
  IF s.allq = {} THEN Log(s, [e |-> "empty"]) ELSE s

(* call(fn, s, a): the handler function fn called in state s with the       *)
(* arguments a; every call of one handler function from another goes        *)
(* through it.  It is defined after the functions.                          *)
RECURSIVE call(_, _, _)

(* the caller's completion callback: it records what it was given and, when *)
(* the application does so (once in a handler), submits the next query from *)
(* inside the callback                                                      *)
Callback(s, q, status) ==
  LET s1  == Log([s EXCEPT !.cbn[q] = @ + 1],
                 [e |-> "cb", q |-> q, status |-> status,
                  timeouts |-> s.q[q].timeouts, sends |-> s.sends[q],
                  live |-> s.q[q].st = "live", table |-> s.allq,
                  idx |-> Indexes(s), conn |-> s.q[q].conn])
      new == {x \in Qids : s.q[x].st = "new"}
  IN  IF s.o.cbsub /\ new # {}
      THEN LET x  == CHOOSE y \in new : \A z \in new : y <= z
               s2 == Log([s1 EXCEPT !.o.cbsub = FALSE,
                                    !.q[x] = BlankQuery("live"),
                                    !.byqid = @ \cup {x},
                                    !.allq = @ \cup {x}],
                         [e |-> "submit", q |-> x, byqid |-> s1.byqid])
           IN  call("ares__send_query", s2, <<x, tvnow(s2)>>)
      ELSE s1

end_query_notify_first(s, server, q, status) ==
  ares__free_query(ares_queue_notify_empty(Callback(s, q, status)), q)

end_query_nofree(s, server, q, status) ==
  ares_queue_notify_empty(Callback(s, q, status))

(* the ending that detaches the query before it calls back *)
end_query_detach_first(s, server, q, status) ==
  ares_queue_notify_empty(
    ares__free_query(Callback(ares_detach_query(s, q), q, status), q))

end_query(s, server, q, status) ==
  ares_queue_notify_empty(ares__free_query(Callback(s, q, status), q))

(* ------------------------------ connections ---------------------------- *)
fetch_connection_any(s, sv, q) ==
  IF s.srv[sv].connections = <<>> THEN NULL
  ELSE s.srv[sv].connections[1]

ares__fetch_connection(s, sv, q) ==
  IF s.q[q].using_tcp THEN s.srv[sv].tcp_conn
  ELSE IF s.srv[sv].connections = <<>> THEN NULL
  ELSE LET conn == s.srv[sv].connections[1]
       IN  IF s.conn[conn].tcp THEN NULL
           ELSE IF /\ s.ch.udp_max_queries > 0
                   /\ s.conn[conn].total >= s.ch.udp_max_queries
                THEN NULL
           ELSE conn

FreeSlots(s) == {c \in ConnIds : ~s.conn[c].open /\ c \notin s.freed}

(* ares__open_connection: the transport's answer comes from the environment; *)
(* a new connection is prepended to the server's list                         *)
ares__open_connection(s, sv, use_tcp) ==
  LET status == IF s.o.open[sv] = SUCCESS /\ FreeSlots(s) = {}
                THEN ENOMEM ELSE s.o.open[sv]
      s0     == Log(IF s.o.open[sv] = SUCCESS /\ status # SUCCESS
                    THEN Log(s, [e |-> "noslot"]) ELSE s,
                    [e |-> "open", sv |-> sv, status |-> status])
  IN  IF status # SUCCESS
      THEN [s |-> Ret(s0, status), conn |-> NULL]
      ELSE
        LET c == CHOOSE x \in FreeSlots(s) : \A y \in FreeSlots(s) : x <= y
        IN  [s |-> Ret([s0 EXCEPT
                     !.conn[c] = [BlankConn EXCEPT !.open = TRUE,
                                                   !.server = sv,
                                                   !.tcp = use_tcp],
                     !.srv[sv].connections = <<c>> \o @,
                     !.srv[sv].tcp_conn = IF use_tcp THEN c ELSE @], SUCCESS),
             conn |-> c]

(* ares__conn_flush: write the outbound buffer to the socket *)
ares__conn_flush(s, c) ==
  LET status == IF s.o.write[s.conn[c].server] = ECONNREFUSED
                THEN ECONNREFUSED ELSE SUCCESS
      s1     == IF status = SUCCESS THEN [s EXCEPT !.conn[c].out = FALSE] ELSE s
  IN  Ret(Log(s1, [e |-> "flush", c |-> c, status |-> status]), status)

ares__conn_query_write(s, c, q) ==
  LET enc == s.o.write[s.conn[c].server]
  IN  IF enc \in {ENOMEM, EBADNAME} THEN Ret(s, enc)
      ELSE
        LET s1 == [s EXCEPT !.conn[c].out = TRUE]
        IN  IF s1.conn[c].tcp /\ ~s1.conn[c].connected THEN Ret(s1, SUCCESS)
            ELSE IF s1.ch.notify_pending_write_cb /\ ~s1.npw /\ s1.conn[c].tcp
                 THEN Ret(Log([s1 EXCEPT !.npw = TRUE],
                              [e |-> "notify_pending_write"]), SUCCESS)
            ELSE ares__conn_flush(s1, c)

(* ------------------------------ dispatch ------------------------------- *)
RECURSIVE RequeueAll(_, _, _)

(* ares__close_connection: unlink the connection from its server, drop its  *)
(* buffers, requeue every query in flight on it                              *)
RequeueAll(s, c, requeue_status) ==
  IF s.conn[c].queue = <<>> THEN s
  ELSE RequeueAll(call("ares__requeue_query", s,
                       <<Head(s.conn[c].queue), tvnow(s), requeue_status, TRUE>>),
                  c, requeue_status)

ares__close_connection(s, c, requeue_status) ==
  IF ~s.conn[c].open THEN [s EXCEPT !.ub = TRUE]
  ELSE
    LET sv == s.conn[c].server
        s1 == [s EXCEPT !.srv[sv].connections = SeqRemove(@, c),
                        !.srv[sv].tcp_conn = IF s.conn[c].tcp THEN NULL ELSE @,
                        !.conn[c].open = FALSE,
                        !.conn[c].out = FALSE,
                        !.freed = @ \cup {c}]
    IN  RequeueAll(Log(s1, [e |-> "close", c |-> c]), c, requeue_status)

handle_conn_error_always(s, c, critical_failure, failure_status) ==
  call("ares__close_connection",
       server_increment_failures(s, s.conn[c].server, s.conn[c].tcp),
       <<c, failure_status>>)

handle_conn_error(s, c, critical_failure, failure_status) ==
  LET s1 == IF critical_failure
            THEN server_increment_failures(s, s.conn[c].server, s.conn[c].tcp)
            ELSE s
  IN  call("ares__close_connection", s1, <<c, failure_status>>)

(* ares__send_query from the write of the query on *)
SendOnConn(s, q, now, server, conn) ==
  LET w0 == ares__conn_query_write(s, conn, q)
      w  == Log(w0, [e |-> "write", q |-> q, c |-> conn, status |-> w0.ret,
                     tcp |-> s.conn[conn].tcp,
                     connected |-> s.conn[conn].connected, npw |-> s.npw])
  IN  CASE w.ret = SUCCESS ->
             LET timeplus == ares__calc_query_timeout(w, q, server)
                 s1 == UnlinkFromTimeouts(w, q)
                 s2 == [s1 EXCEPT !.q[q].ts = now,
                                  !.q[q].timeout = timeadd(now, timeplus)]
                 s3 == TimeoutInsert(s2, q)
                 s4 == UnlinkFromConn(s3, q)
                 s5 == [s4 EXCEPT !.conn[conn].queue = Append(@, q),
                                  !.q[q].conn = conn,
                                  !.conn[conn].total = @ + 1,
                                  !.sends[q] = @ + 1]
             IN  Ret(Log(s5, [e |-> "send", q |-> q, c |-> conn,
                              tcp |-> s5.conn[conn].tcp]), SUCCESS)
        [] w.ret = ENOMEM ->
             Ret(end_query(w, server, q, ENOMEM), ENOMEM)
        [] w.ret \in {ECONNREFUSED, EBADFAMILY} ->
             LET h == call("handle_conn_error", w, <<conn, TRUE, w.ret>>)
                 r == call("ares__requeue_query", h, <<q, now, w.ret, TRUE>>)
             IN  Ret(r, IF r.ret = ETIMEOUT THEN ECONNREFUSED ELSE r.ret)
        [] OTHER ->
             call("ares__requeue_query",
                  server_increment_failures(w, server, w.q[q].using_tcp),
                  <<q, now, w.ret, TRUE>>)

send_query_retry_all(s0, q, now) ==
  LET server == IF s0.ch.rotate THEN ares__random_server(s0)
                ELSE ares__failover_server(s0)
      s == Log(s0, [e |-> "pick", q |-> q, sv |-> server, order |-> s0.order,
                    srv |-> s0.srv, now |-> tvnow(s0),
                    try |-> s0.q[q].try_count])
  IN  IF server = NULL
      THEN Ret(end_query(s, server, q, ENOSERVER), ENOSERVER)
      ELSE
        LET conn == ares__fetch_connection(s, server, q)
        IN  IF conn # NULL THEN SendOnConn(s, q, now, server, conn)
            ELSE
              LET op == ares__open_connection(s, server, s.q[q].using_tcp)
              IN  CASE op.s.ret = SUCCESS ->
                         SendOnConn(op.s, q, now, server, op.conn)
                    [] op.s.ret \in {ECONNREFUSED, EBADFAMILY} ->
                         call("ares__requeue_query",
                              server_increment_failures(op.s, server,
                                                        s.q[q].using_tcp),
                              <<q, now, op.s.ret, TRUE>>)
                    [] OTHER ->
                         call("ares__requeue_query",
                              server_increment_failures(op.s, server,
                                                        s.q[q].using_tcp),
                              <<q, now, op.s.ret, TRUE>>)

ares__send_query(s0, q, now) ==
  LET server == IF s0.ch.rotate THEN ares__random_server(s0)
                ELSE ares__failover_server(s0)
      s == Log(s0, [e |-> "pick", q |-> q, sv |-> server, order |-> s0.order,
                    srv |-> s0.srv, now |-> tvnow(s0),
                    try |-> s0.q[q].try_count])
  IN  IF server = NULL
      THEN Ret(end_query(s, server, q, ENOSERVER), ENOSERVER)
      ELSE
        LET conn == ares__fetch_connection(s, server, q)
        IN  IF conn # NULL THEN SendOnConn(s, q, now, server, conn)
            ELSE
              LET op == ares__open_connection(s, server, s.q[q].using_tcp)
              IN  CASE op.s.ret = SUCCESS ->
                         SendOnConn(op.s, q, now, server, op.conn)
                    [] op.s.ret \in {ECONNREFUSED, EBADFAMILY} ->
                         call("ares__requeue_query",
                              server_increment_failures(op.s, server,
                                                        s.q[q].using_tcp),
                              <<q, now, op.s.ret, TRUE>>)
                    [] OTHER ->
                         Ret(end_query(op.s, server, q, op.s.ret), op.s.ret)

requeue_query_forgetful(s, q, now, status, inc_try_count) ==
  LET max_tries == Len(s.order) * s.ch.tries
      s1 == ares__query_remove_from_conn(s, q)
      s3 == IF inc_try_count THEN [s1 EXCEPT !.q[q].try_count = @ + 1] ELSE s1
      s4 == Log(s3, [e |-> "requeue", q |-> q, status |-> status,
                     inc |-> inc_try_count, try |-> s3.q[q].try_count,
                     nr |-> s3.q[q].no_retries])
  IN  IF s4.q[q].try_count < max_tries /\ ~s4.q[q].no_retries
      THEN call("ares__send_query", s4, <<q, now>>)
      ELSE
        LET s5 == IF s4.q[q].error_status = SUCCESS
                  THEN [s4 EXCEPT !.q[q].error_status = ETIMEOUT]
                  ELSE s4
            r  == Ret(end_query(s5, NULL, q, s5.q[q].error_status), ETIMEOUT)
        IN  Log(r, [e |-> "exhaust", q |-> q, ret |-> r.ret])

requeue_query_noinc(s, q, now, status, inc_try_count) ==
  LET max_tries == Len(s.order) * s.ch.tries
      s1 == ares__query_remove_from_conn(s, q)
      s2 == IF status # SUCCESS THEN [s1 EXCEPT !.q[q].error_status = status]
            ELSE s1
      s4 == Log(s2, [e |-> "requeue", q |-> q, status |-> status,
                     inc |-> inc_try_count, try |-> s2.q[q].try_count,
                     nr |-> s2.q[q].no_retries])
  IN  IF s4.q[q].try_count < max_tries /\ ~s4.q[q].no_retries
      THEN call("ares__send_query", s4, <<q, now>>)
      ELSE
        LET s5 == IF s4.q[q].error_status = SUCCESS
                  THEN [s4 EXCEPT !.q[q].error_status = ETIMEOUT]
                  ELSE s4
            r  == Ret(end_query(s5, NULL, q, s5.q[q].error_status), ETIMEOUT)
        IN  Log(r, [e |-> "exhaust", q |-> q, ret |-> r.ret])

(* the requeue that sends once more when the tries are used up *)
requeue_query_one_more(s, q, now, status, inc_try_count) ==
  LET max_tries == Len(s.order) * s.ch.tries
      s1 == ares__query_remove_from_conn(s, q)
      s2 == IF status # SUCCESS THEN [s1 EXCEPT !.q[q].error_status = status]
            ELSE s1
      s3 == IF inc_try_count THEN [s2 EXCEPT !.q[q].try_count = @ + 1] ELSE s2
      s4 == Log(s3, [e |-> "requeue", q |-> q, status |-> status,
                     inc |-> inc_try_count, try |-> s3.q[q].try_count,
                     nr |-> s3.q[q].no_retries,
                     att |-> (s.q[q].conn # NULL \/ InSomeQueue(s, q)
                              \/ q \in SeqElems(s.tq)),
                     idx |-> Indexes(s), idx1 |-> Indexes(s1)])
  IN  IF s4.q[q].try_count <= max_tries /\ ~s4.q[q].no_retries
      THEN call("ares__send_query", s4, <<q, now>>)
      ELSE
        LET s5 == IF s4.q[q].error_status = SUCCESS
                  THEN [s4 EXCEPT !.q[q].error_status = ETIMEOUT]
                  ELSE s4
            r  == Ret(end_query(s5, NULL, q, s5.q[q].error_status), ETIMEOUT)
        IN  Log(r, [e |-> "exhaust", q |-> q, ret |-> r.ret])

ares__requeue_query(s, q, now, status, inc_try_count) ==
  LET max_tries == Len(s.order) * s.ch.tries
      s1 == ares__query_remove_from_conn(s, q)
      s2 == IF status # SUCCESS THEN [s1 EXCEPT !.q[q].error_status = status]
            ELSE s1
      s3 == IF inc_try_count THEN [s2 EXCEPT !.q[q].try_count = @ + 1] ELSE s2
      s4 == Log(s3, [e |-> "requeue", q |-> q, status |-> status,
                     inc |-> inc_try_count, try |-> s3.q[q].try_count,
                     nr |-> s3.q[q].no_retries,
                     att |-> (s.q[q].conn # NULL \/ InSomeQueue(s, q)
                              \/ q \in SeqElems(s.tq)),
                     idx |-> Indexes(s), idx1 |-> Indexes(s1)])
  IN  IF s4.q[q].try_count < max_tries /\ ~s4.q[q].no_retries
      THEN call("ares__send_query", s4, <<q, now>>)
      ELSE
        LET s5 == IF s4.q[q].error_status = SUCCESS
                  THEN [s4 EXCEPT !.q[q].error_status = ETIMEOUT]
                  ELSE s4
            r  == Ret(end_query(s5, NULL, q, s5.q[q].error_status), ETIMEOUT)
        IN  Log(r, [e |-> "exhaust", q |-> q, ret |-> r.ret])


(* ------------------------------ messages ------------------------------- *)
RC_NOERROR  == "NOERROR"
RC_FORMERR  == "FORMERR"
RC_SERVFAIL == "SERVFAIL"
RC_NOTIMP   == "NOTIMP"
RC_REFUSED  == "REFUSED"

(* the question section of the record submitted as query q *)
QuestionsOf(q) ==
  << [name |-> <<"E", "x">>, qtype |-> IF q = 1 THEN "A" ELSE "AAAA",
      qclass |-> "IN"] >>

ToLower(ch) == CASE ch = "E" -> "e" [] ch = "X" -> "x" [] ch = "F" -> "f"
                 [] OTHER -> ch

LowerName(name) == [i \in 1..Len(name) |-> ToLower(name[i])]

ares_streq(a, b) == a = b

ares_strcaseeq(a, b) == LowerName(a) = LowerName(b)

(* the loop of same_questions from question i on; done with rv = FALSE at *)
(* the first question that differs                                        *)
RECURSIVE SameFrom(_, _, _, _)
SameFrom(qrec, arec, i, sensitive) ==
  IF i > Len(qrec) THEN TRUE
  ELSE IF qrec[i].qtype # arec[i].qtype \/ qrec[i].qclass # arec[i].qclass
       THEN FALSE
  ELSE IF sensitive /\ ~ares_streq(qrec[i].name, arec[i].name) THEN FALSE
  ELSE IF ~sensitive /\ ~ares_strcaseeq(qrec[i].name, arec[i].name) THEN FALSE
  ELSE SameFrom(qrec, arec, i + 1, sensitive)

same_questions_any(s, q, arec) == TRUE

same_questions_nocase(s, q, arec) ==
  LET qrec == QuestionsOf(q)
  IN  IF Len(qrec) # Len(arec.qd) THEN FALSE
      ELSE SameFrom(qrec, arec.qd, 1, FALSE)

same_questions(s, q, arec) ==
  LET qrec == QuestionsOf(q)
  IN  IF Len(qrec) # Len(arec.qd) THEN FALSE
      ELSE SameFrom(qrec, arec.qd, 1,
                    FLAG_DNS0x20 \in s.ch.flags /\ ~s.q[q].using_tcp)

rewrite_keeping_opt(s, q) ==
  IF s.q[q].opt THEN Ret(s, SUCCESS) ELSE Ret(s, EFORMERR)

(* rewrite_without_edns: delete the OPT RR of the outbound record *)
rewrite_without_edns(s, q) ==
  IF s.q[q].opt THEN Ret([s EXCEPT !.q[q].opt = FALSE], SUCCESS)
  ELSE Ret(s, EFORMERR)

(* ------------------------------ answers -------------------------------- *)
AnsEvent(s, s0, c, m, q, path, status) ==
  Ret(Log(s, [e |-> "ans", c |-> c, q |-> q, path |-> path, ret |-> status,
              open |-> s.conn[c].open, from |-> Len(s0.log) + 1,
              sv |-> s0.conn[c].server,
              fails0 |-> IF s0.conn[c].server = NULL THEN 0
                         ELSE s0.srv[s0.conn[c].server].consec_failures,
              try0 |-> IF q = NULL THEN 0 ELSE s0.q[q].try_count,
              to0 |-> IF q = NULL THEN 0 ELSE s0.q[q].timeouts,
              m |-> m]),
      status)

(* the handling that takes the server from the connection of the query *)
process_answer_by_query_conn(s, c, m, now) ==
  LET query  == IF m.kind = "msg" /\ m.id \in s.byqid THEN m.id ELSE NULL
      server == IF query # NULL /\ s.q[query].conn # NULL
                THEN s.conn[s.q[query].conn].server
                ELSE s.conn[c].server
  IN  IF m.kind = "empty" THEN AnsEvent(s, s, c, m, NULL, "empty", SUCCESS)
      ELSE IF m.kind = "bad" THEN AnsEvent(s, s, c, m, NULL, "badresp", EBADRESP)
      ELSE IF query = NULL THEN AnsEvent(s, s, c, m, NULL, "noquery", SUCCESS)
      ELSE IF ~same_questions(s, query, m)
           THEN AnsEvent(s, s, c, m, query, "mismatch", SUCCESS)
      ELSE IF ~m.cookie THEN AnsEvent(s, s, c, m, query, "cookie", SUCCESS)
      ELSE
        LET s1 == UnlinkFromConn(s, query)
        IN  IF m.rcode = RC_FORMERR /\ s1.q[query].opt /\ ~m.opt
            THEN LET rw == rewrite_without_edns(s1, query)
                 IN  IF rw.ret # SUCCESS
                     THEN AnsEvent(end_query(rw, server, query, rw.ret),
                                   s, c, m, query, "ednsfail", rw.ret)
                     ELSE AnsEvent(call("ares__send_query", rw, <<query, now>>),
                                   s, c, m, query, "edns", SUCCESS)
            ELSE IF m.tc /\ ~s1.conn[c].tcp /\ FLAG_IGNTC \notin s1.ch.flags
            THEN AnsEvent(
                   call("ares__send_query",
                        [s1 EXCEPT !.q[query].using_tcp = TRUE], <<query, now>>),
                   s, c, m, query, "tc", SUCCESS)
            ELSE IF /\ FLAG_NOCHECKRESP \notin s1.ch.flags
                    /\ m.rcode \in {RC_SERVFAIL, RC_NOTIMP, RC_REFUSED}
            THEN LET status == CASE m.rcode = RC_SERVFAIL -> ESERVFAIL
                                 [] m.rcode = RC_NOTIMP   -> ENOTIMP
                                 [] OTHER                 -> EREFUSED
                     s2 == server_increment_failures(s1, server,
                                                     s1.q[query].using_tcp)
                 IN  AnsEvent(call("ares__requeue_query", s2,
                                   <<query, now, status, TRUE>>),
                              s, c, m, query, "rcode", SUCCESS)
            ELSE
              LET s2 == server_set_good(s1, server, s1.q[query].using_tcp)
              IN  AnsEvent(end_query(s2, server, query, SUCCESS),
                           s, c, m, query, "accept", SUCCESS)

(* the handling that counts the resend over TCP as a try *)
process_answer_counting_resend(s, c, m, now) ==
  LET server == s.conn[c].server
      query  == IF m.kind = "msg" /\ m.id \in s.byqid THEN m.id ELSE NULL
  IN  IF m.kind = "empty" THEN AnsEvent(s, s, c, m, NULL, "empty", SUCCESS)
      ELSE IF m.kind = "bad" THEN AnsEvent(s, s, c, m, NULL, "badresp", EBADRESP)
      ELSE IF query = NULL THEN AnsEvent(s, s, c, m, NULL, "noquery", SUCCESS)
      ELSE IF ~same_questions(s, query, m)
           THEN AnsEvent(s, s, c, m, query, "mismatch", SUCCESS)
      ELSE IF ~m.cookie THEN AnsEvent(s, s, c, m, query, "cookie", SUCCESS)
      ELSE
        LET s1 == UnlinkFromConn(s, query)
        IN  IF m.rcode = RC_FORMERR /\ s1.q[query].opt /\ ~m.opt
            THEN LET rw == rewrite_without_edns(s1, query)
                 IN  IF rw.ret # SUCCESS
                     THEN AnsEvent(end_query(rw, server, query, rw.ret),
                                   s, c, m, query, "ednsfail", rw.ret)
                     ELSE AnsEvent(call("ares__send_query", rw, <<query, now>>),
                                   s, c, m, query, "edns", SUCCESS)
            ELSE IF m.tc /\ ~s1.conn[c].tcp /\ FLAG_IGNTC \notin s1.ch.flags
            THEN AnsEvent(
                   call("ares__send_query",
                        [s1 EXCEPT !.q[query].using_tcp = TRUE,
                                   !.q[query].try_count = @ + 1],
                        <<query, now>>),
                   s, c, m, query, "tc", SUCCESS)
            ELSE IF /\ FLAG_NOCHECKRESP \notin s1.ch.flags
                    /\ m.rcode \in {RC_SERVFAIL, RC_NOTIMP, RC_REFUSED}
            THEN LET status == CASE m.rcode = RC_SERVFAIL -> ESERVFAIL
                                 [] m.rcode = RC_NOTIMP   -> ENOTIMP
                                 [] OTHER                 -> EREFUSED
                     s2 == server_increment_failures(s1, server,
                                                     s1.q[query].using_tcp)
                 IN  AnsEvent(call("ares__requeue_query", s2,
                                   <<query, now, status, TRUE>>),
                              s, c, m, query, "rcode", SUCCESS)
            ELSE
              LET s2 == server_set_good(s1, server, s1.q[query].using_tcp)
              IN  AnsEvent(end_query(s2, server, query, SUCCESS),
                           s, c, m, query, "accept", SUCCESS)

process_answer(s, c, m, now) ==
  LET server == s.conn[c].server
      query  == IF m.kind = "msg" /\ m.id \in s.byqid THEN m.id ELSE NULL
  IN  IF m.kind = "empty" THEN AnsEvent(s, s, c, m, NULL, "empty", SUCCESS)
      ELSE IF m.kind = "bad" THEN AnsEvent(s, s, c, m, NULL, "badresp", EBADRESP)
      ELSE IF query = NULL THEN AnsEvent(s, s, c, m, NULL, "noquery", SUCCESS)
      ELSE IF ~same_questions(s, query, m)
           THEN AnsEvent(s, s, c, m, query, "mismatch", SUCCESS)
      ELSE IF ~m.cookie THEN AnsEvent(s, s, c, m, query, "cookie", SUCCESS)
      ELSE
        LET s1 == UnlinkFromConn(s, query)
        IN  IF m.rcode = RC_FORMERR /\ s1.q[query].opt /\ ~m.opt
            THEN LET rw == rewrite_without_edns(s1, query)
                 IN  IF rw.ret # SUCCESS
                     THEN AnsEvent(end_query(rw, server, query, rw.ret),
                                   s, c, m, query, "ednsfail", rw.ret)
                     ELSE AnsEvent(call("ares__send_query", rw, <<query, now>>),
                                   s, c, m, query, "edns", SUCCESS)
            ELSE IF m.tc /\ ~s1.conn[c].tcp /\ FLAG_IGNTC \notin s1.ch.flags
            THEN AnsEvent(
                   call("ares__send_query",
                        [s1 EXCEPT !.q[query].using_tcp = TRUE], <<query, now>>),
                   s, c, m, query, "tc", SUCCESS)
            ELSE IF /\ FLAG_NOCHECKRESP \notin s1.ch.flags
                    /\ m.rcode \in {RC_SERVFAIL, RC_NOTIMP, RC_REFUSED}
            THEN LET status == CASE m.rcode = RC_SERVFAIL -> ESERVFAIL
                                 [] m.rcode = RC_NOTIMP   -> ENOTIMP
                                 [] OTHER                 -> EREFUSED
                     s2 == server_increment_failures(s1, server,
                                                     s1.q[query].using_tcp)
                 IN  AnsEvent(call("ares__requeue_query", s2,
                                   <<query, now, status, TRUE>>),
                              s, c, m, query, "rcode", SUCCESS)
            ELSE
              LET s2 == server_set_good(s1, server, s1.q[query].using_tcp)
              IN  AnsEvent(end_query(s2, server, query, SUCCESS),
                           s, c, m, query, "accept", SUCCESS)

(* ------------------------------ reading -------------------------------- *)
(* What the socket yields to one read_conn: the datagrams or frames read,   *)
(* then how the reading ends.                                                *)
WOULDBLOCK == "WOULDBLOCK"
READ_ERR   == "ERR"
READ_NOMEM == "NOMEM"

read_conn_packets(s, c, rd) ==
  LET term == IF s.conn[c].tcp /\ rd.data # <<>> THEN WOULDBLOCK ELSE rd.term
  IN  CASE term = READ_NOMEM ->
             [s |-> Ret(call("handle_conn_error", s, <<c, FALSE, SUCCESS>>),
                        ENOMEM),
              frames |-> <<>>]
        [] term = READ_ERR ->
             [s |-> Ret(call("handle_conn_error", s, <<c, TRUE, ECONNREFUSED>>),
                        ECONNREFUSED),
              frames |-> <<>>]
        [] OTHER -> [s |-> Ret(s, SUCCESS), frames |-> rd.data]

RECURSIVE read_answers_past_errors(_, _, _, _)
read_answers_past_errors(s, c, frames, now) ==
  IF frames = <<>> THEN s
  ELSE
    LET r == call("process_answer", s, <<c, Head(frames), now>>)
    IN  IF ~r.conn[c].open THEN r
        ELSE read_answers_past_errors(r, c, Tail(frames), now)

RECURSIVE read_answers(_, _, _, _)
read_answers(s, c, frames, now) ==
  IF frames = <<>> THEN s
  ELSE
    LET r == call("process_answer", s, <<c, Head(frames), now>>)
    IN  IF r.ret # SUCCESS THEN call("handle_conn_error", r, <<c, TRUE, r.ret>>)
        ELSE IF ~r.conn[c].open
             THEN (* conn->in_buf is used after the connection was freed *)
                  IF r.o.ubgo
                  THEN read_answers([r EXCEPT !.ub = TRUE], c, Tail(frames), now)
                  ELSE [r EXCEPT !.ub = TRUE]
        ELSE read_answers(r, c, Tail(frames), now)

read_conn(s, c, rd, now) ==
  LET p == read_conn_packets(s, c, rd)
  IN  IF p.s.ret # SUCCESS THEN p.s
      ELSE call("read_answers", p.s, <<c, p.frames, now>>)

(* the sockets of the channel's connections: server by server in the order *)
(* of the server list, each server's connections in the order of its list  *)
RECURSIVE channel_socket_list(_, _)
channel_socket_list(s, i) ==
  IF i > Len(s.order) THEN <<>>
  ELSE SelectSeq(s.srv[s.order[i]].connections, LAMBDA c : s.conn[c].open)
       \o channel_socket_list(s, i + 1)

(* the loop of process_read over the socket list taken when it started; a  *)
(* socket that is no longer in connnode_by_socket ends the loop             *)
RECURSIVE ReadEach(_, _, _, _)
ReadEach(s, socketlist, fds, now) ==
  IF socketlist = <<>> THEN s
  ELSE LET c == Head(socketlist)
       IN  IF c \notin fds THEN ReadEach(s, Tail(socketlist), fds, now)
           ELSE IF ~s.conn[c].open THEN s
           ELSE ReadEach(call("read_conn", s, <<c, s.o.rds[c], now>>),
                         Tail(socketlist), fds \ {c}, now)

(* process_read: one descriptor (ares_process_fd) or a set of descriptors  *)
(* (ares_process)                                                           *)
process_read(s, read_fds, read_fd, rd, now) ==
  IF read_fds.null /\ read_fd = NULL THEN s
  ELSE IF read_fds.null
       THEN IF ~s.conn[read_fd].open THEN s
            ELSE call("read_conn", s, <<read_fd, rd, now>>)
  ELSE ReadEach(s, channel_socket_list(s, 1), read_fds.fds, now)

(* ------------------------------ timeouts ------------------------------- *)
process_timeouts_never(s, now) == s

RECURSIVE process_timeouts(_, _)
process_timeouts(s, now) ==
  IF s.tq = <<>> THEN s
  ELSE
    LET query == Head(s.tq)
    IN  IF ~timedout(now, s.q[query].timeout) THEN s
        ELSE
          LET s1   == [s EXCEPT !.q[query].timeouts = @ + 1]
              conn == s1.q[query].conn
              s2   == IF conn = NULL THEN [s1 EXCEPT !.ub = TRUE]
                      ELSE server_increment_failures(s1, s1.conn[conn].server,
                                                     s1.q[query].using_tcp)
          IN  process_timeouts(
                call("ares__requeue_query", s2, <<query, now, ETIMEOUT, TRUE>>),
                now)

(* ------------------------------ writing -------------------------------- *)
ares_notify_write(s, c) ==
  LET s1 == Log([s EXCEPT !.conn[c].connected = TRUE],
                [e |-> "writable", c |-> c])
      f  == ares__conn_flush(s1, c)
  IN  IF f.ret # SUCCESS THEN call("handle_conn_error", f, <<c, TRUE, f.ret>>)
      ELSE f

(* the loop of process_write over the socket list taken when it started *)
RECURSIVE WriteEach(_, _, _)
WriteEach(s, socketlist, fds) ==
  IF socketlist = <<>> THEN s
  ELSE LET c == Head(socketlist)
       IN  IF c \notin fds THEN WriteEach(s, Tail(socketlist), fds)
           ELSE IF ~s.conn[c].open THEN s
           ELSE WriteEach(call("ares_notify_write", s, <<c>>),
                          Tail(socketlist), fds \ {c})

(* process_write: one descriptor (ares_process_fd) or a set of descriptors *)
(* (ares_process)                                                           *)
process_write(s, write_fds, write_fd) ==
  IF write_fds.null /\ write_fd = NULL THEN s
  ELSE IF write_fds.null
       THEN IF ~s.conn[write_fd].open THEN s
            ELSE call("ares_notify_write", s, <<write_fd>>)
  ELSE WriteEach(s, channel_socket_list(s, 1), write_fds.fds)

(* The loop of ares_process_pending_write over the server list: the TCP     *)
(* connection of the server is flushed, the loop goes on with the node that *)
(* follows the server's node in the list as it is then.                     *)
RECURSIVE FlushFrom(_, _)
FlushFrom(s, i) ==
  IF i > Len(s.order) THEN s
  ELSE
    LET server == s.order[i]
        conn   == s.srv[server].tcp_conn
        s1 == IF conn = NULL THEN s
              ELSE LET f == ares__conn_flush(s, conn)
                   IN  IF f.ret # SUCCESS
                       THEN call("handle_conn_error", f, <<conn, TRUE, f.ret>>)
                       ELSE f
        next == CHOOSE j \in 1..Len(s1.order) : s1.order[j] = server
    IN  FlushFrom(s1, next + 1)

ares_process_pending_write(s) ==
  IF ~s.npw THEN s
  ELSE FlushFrom([s EXCEPT !.npw = FALSE], 1)

(* ares__check_cleanup_conns: close the connections that carry no query and *)
(* hold no buffered bytes                                                    *)
RECURSIVE CleanupFrom(_, _)
CleanupFrom(s, c) ==
  IF c > MaxConns THEN s
  ELSE IF s.conn[c].open /\ s.conn[c].queue = <<>> /\ ~s.conn[c].out
       THEN CleanupFrom(call("ares__close_connection", s, <<c, SUCCESS>>), c + 1)
  ELSE CleanupFrom(s, c + 1)

ares__check_cleanup_conns(s) == CleanupFrom(Log(s, [e |-> "cleanup"]), 1)

processfds_timeouts_first(s0, read_fds, read_fd, rd, write_fds, write_fd) ==
  LET now == tvnow(s0)
      s   == [s0 EXCEPT !.wall = timeadd(@, s0.o.drift)]
      s1  == call("process_timeouts", s, <<now>>)
      s2  == call("process_read", s1, <<read_fds, read_fd, rd, now>>)
      s3  == call("process_write", s2, <<write_fds, write_fd>>)
  IN  call("ares__check_cleanup_conns", s3, <<>>)

processfds_late_now(s0, read_fds, read_fd, rd, write_fds, write_fd) ==
  LET s   == [s0 EXCEPT !.wall = timeadd(@, s0.o.drift)]
      now == tvnow(s)
      s1  == call("process_read", s, <<read_fds, read_fd, rd, now>>)
      s2  == call("process_timeouts", s1, <<now>>)
      s3  == call("process_write", s2, <<write_fds, write_fd>>)
  IN  call("ares__check_cleanup_conns", s3, <<>>)

(* generic process function: now is sampled, and the clock goes on by      *)
(* o.drift before the functions called read it again                        *)
processfds(s0, read_fds, read_fd, rd, write_fds, write_fd) ==
  LET now == tvnow(s0)
      s   == [s0 EXCEPT !.wall = timeadd(@, s0.o.drift)]
      s1  == call("process_read", s, <<read_fds, read_fd, rd, now>>)
      s2  == call("process_timeouts", s1, <<now>>)
      s3  == call("process_write", s2, <<write_fds, write_fd>>)
  IN  call("ares__check_cleanup_conns", s3, <<>>)

(* the handler functions that are called from one another *)
call(fn, s, a) ==
  CASE fn = "ares__send_query"    -> ares__send_query(s, a[1], a[2])
    [] fn = "ares__requeue_query" -> ares__requeue_query(s, a[1], a[2], a[3], a[4])
    [] fn = "ares__close_connection" -> ares__close_connection(s, a[1], a[2])
    [] fn = "handle_conn_error"   -> handle_conn_error(s, a[1], a[2], a[3])
    [] fn = "process_answer"      -> process_answer(s, a[1], a[2], a[3])
    [] fn = "read_answers"        -> read_answers(s, a[1], a[2], a[3])
    [] fn = "read_conn"           -> read_conn(s, a[1], a[2], a[3])
    [] fn = "process_read"        -> process_read(s, a[1], a[2], a[3], a[4])
    [] fn = "process_timeouts"    -> process_timeouts(s, a[1])
    [] fn = "ares_notify_write"   -> ares_notify_write(s, a[1])
    [] fn = "process_write"       -> process_write(s, a[1], a[2])
    [] fn = "ares__check_cleanup_conns" -> ares__check_cleanup_conns(s)
    [] fn = "processfds"          -> processfds(s, a[1], a[2], a[3], a[4], a[5])


(* ------------------------------ state ---------------------------------- *)
VARIABLES
  channel,   \* the channel's configuration (options and flags)
  servers,   \* per server: consec_failures, next_retry_time, connections, tcp_conn
  order,     \* channel->servers, the sorted server list
  conns,     \* per connection slot: the ares_conn_t
  queries,   \* per qid: the ares_query_t
  tq,        \* channel->queries_by_timeout
  byqid,     \* channel->queries_by_qid
  allq,      \* channel->all_queries
  cbn,       \* per qid: how often its callback has run
  npw,       \* channel->notify_pending_write
  clock,     \* the monotonic clock
  sends,     \* per live qid: how often it was put on a connection
  heard,     \* the live qids some response has been looked up for
  quiet,     \* no response was read and no transport call failed so far
  beat       \* flips with every call of the tick entry point that is counted

vars == <<channel, servers, order, conns, queries, tq, byqid, allq, cbn, npw,
          clock, sends, heard, quiet, beat>>

DefaultChannel ==
  [rotate |-> FALSE, tries |-> Tries, server_retry_chance |-> 0,
   server_retry_delay |-> 2 * StepMs, maxtimeout |-> 0, udp_max_queries |-> 0,
   flags |-> {}, timeout |-> StepMs, notify_pending_write_cb |-> FALSE]

RotateChannel == [DefaultChannel EXCEPT !.rotate = TRUE]

(* a failed server is retried with probability 1/2 *)
RetryChannel == [DefaultChannel EXCEPT !.server_retry_chance = 2]

Configs ==
  {DefaultChannel,
   [DefaultChannel EXCEPT !.flags = {FLAG_IGNTC}],
   [DefaultChannel EXCEPT !.flags = {FLAG_NOCHECKRESP}]}

InitFrom(configs, lists) ==
  /\ channel \in configs
  /\ servers = [sv \in Servers |->
                  [consec_failures |-> 0, next_retry_time |-> TimeZero,
                   connections |-> <<>>, tcp_conn |-> NULL]]
  /\ order \in lists
  /\ conns = [c \in ConnIds |-> BlankConn]
  /\ queries = [q \in Qids |-> BlankQuery("new")]
  /\ tq = <<>>
  /\ byqid = {}
  /\ allq = {}
  /\ cbn = [q \in Qids |-> 0]
  /\ npw = FALSE
  /\ clock = TimeZero
  /\ sends = [q \in Qids |-> 0]
  /\ heard = {}
  /\ quiet = TRUE
  /\ beat = FALSE

InitWith(configs) == InitFrom(configs, {[i \in 1..NumServers |-> i]})

Init == InitWith(Configs)

(* the channel as a handler finds it, with the environment's answers o;   *)
(* log collects what the handler does, ub whether it used a freed          *)
(* connection, freed the connections it closed                             *)
Enter(o) ==
  [ch |-> channel, srv |-> servers, order |-> order, conn |-> conns,
   q |-> queries, tq |-> tq, byqid |-> byqid, allq |-> allq, cbn |-> cbn,
   npw |-> npw, sends |-> sends, wall |-> clock, o |-> o,
   log |-> <<>>, ub |-> FALSE, ret |-> SUCCESS, freed |-> {}]

Events(s, kind) == {i \in 1..Len(s.log) : s.log[i].e = kind}

(* the queries a response was matched to by id during the handler *)
HeardIn(s) == {s.log[i].q : i \in Events(s, "ans")} \ {NULL}

(* the handler returns: the slots of closed connections can be used again *)
Leave(s, calm) ==
  /\ channel' = s.ch
  /\ servers' = s.srv
  /\ order' = s.order
  /\ conns' = [c \in ConnIds |-> IF s.conn[c].open THEN s.conn[c] ELSE BlankConn]
  /\ queries' = s.q
  /\ tq' = s.tq
  /\ byqid' = s.byqid
  /\ allq' = s.allq
  /\ cbn' = s.cbn
  /\ npw' = s.npw
  /\ sends' = s.sends
  /\ heard' = (heard \cup HeardIn(s)) \cap s.byqid
  /\ quiet' = (quiet /\ calm /\ Events(s, "noslot") = {})
  /\ clock' = s.wall

(* ------------------------------ environment ---------------------------- *)
Resp(id, qd, rcode, tc, opt, cookie) ==
  [kind |-> "msg", id |-> id, qd |-> qd, rcode |-> rcode, tc |-> tc,
   opt |-> opt, cookie |-> cookie]

LowerQ(q) == << [QuestionsOf(q)[1] EXCEPT !.name = LowerName(@)] >>
OtherQ(q) == << [QuestionsOf(q)[1] EXCEPT !.name = <<"f", "x">>] >>

RespOk(q) == Resp(q, QuestionsOf(q), RC_NOERROR, FALSE, TRUE, TRUE)

RespRcode(q, rcode) == Resp(q, QuestionsOf(q), rcode, FALSE, TRUE, TRUE)

(* a truncated response *)
RespTc(q) == Resp(q, QuestionsOf(q), RC_NOERROR, TRUE, TRUE, TRUE)

RespOf(q) ==
  { RespOk(q),
    RespTc(q),
    Resp(q, QuestionsOf(q), RC_FORMERR, FALSE, FALSE, TRUE),
    RespRcode(q, RC_FORMERR),
    RespRcode(q, RC_SERVFAIL),
    RespRcode(q, RC_NOTIMP),
    RespRcode(q, RC_REFUSED),
    Resp(q, QuestionsOf(q), RC_SERVFAIL, TRUE, TRUE, TRUE),
    Resp(q, LowerQ(q), RC_NOERROR, FALSE, TRUE, TRUE),
    Resp(q, OtherQ(q), RC_NOERROR, FALSE, TRUE, TRUE),
    Resp(q, QuestionsOf(q), RC_NOERROR, FALSE, TRUE, FALSE) }

Malformed == [kind |-> "bad"]
Empty     == [kind |-> "empty"]

(* a well-formed response whose id no query ever had *)
Stray == Resp(NULL, <<>>, RC_NOERROR, FALSE, TRUE, TRUE)

(* late answers to queries that have ended *)
Late == {RespOk(q) : q \in {x \in Qids : queries[x].st = "done"}}

AllOk == [sv \in Servers |-> SUCCESS]

NoFault == [open |-> AllOk, write |-> AllOk]

OpenRefused  == [open |-> [sv \in Servers |-> ECONNREFUSED], write |-> AllOk]
WriteRefused == [open |-> AllOk, write |-> [sv \in Servers |-> ECONNREFUSED]]

Faults ==
  {NoFault, OpenRefused, WriteRefused}
  \cup {[open |-> [AllOk EXCEPT ![sv] = st], write |-> AllOk] :
          sv \in Servers, st \in {ECONNREFUSED, ENOMEM}}
  \cup {[open |-> AllOk, write |-> [AllOk EXCEPT ![sv] = st]] :
          sv \in Servers, st \in {ECONNREFUSED, ENOMEM, EBADNAME}}

NoRead == [data |-> <<>>, term |-> WOULDBLOCK]

(* rbyte is the draw of the server selection: the byte of                  *)
(* ares__random_server when servers rotate, the short of                   *)
(* ares__failover_server when they do not; rds is what each socket of a    *)
(* readiness set yields when it is read; drift is how far the clock goes   *)
(* on, in milliseconds, between the sample of a tick and the later reads   *)
(* of the clock in that tick                                               *)
Oracle(f, rjit, rbyte, ubgo) ==
  [open |-> f.open, write |-> f.write, rjit |-> rjit, rfail |-> rbyte,
   rbyte |-> rbyte, ubgo |-> ubgo, cbsub |-> FALSE,
   rds |-> [c \in ConnIds |-> NoRead], drift |-> 0]

OpenConns == {c \in ConnIds : conns[c].open}

(* sockets select() can report writable with something to do *)
WritableConns ==
  {c \in OpenConns : conns[c].tcp /\ (~conns[c].connected \/ conns[c].out)}

Overdue == \E q \in SeqElems(tq) : timedout(clock, queries[q].timeout)

(* the jitter draw matters only once a query can be in a later round *)
JitterDraws ==
  IF \E q \in byqid : (queries[q].try_count + 1) \div NumServers > 0
  THEN RandShorts ELSE {0}

(* the draw of the server selection matters only when servers rotate or a *)
(* failed server may be retried                                            *)
ByteDraws ==
  IF channel.rotate THEN 0..(NumServers - 1)
  ELSE IF channel.server_retry_chance > 0
       THEN 0..(channel.server_retry_chance - 1)
  ELSE {0}

TickIn(read_fd, rd, write_fd, f, rjit, rbyte, ubgo) ==
  [read_fds |-> [null |-> TRUE, fds |-> {}], read_fd |-> read_fd, rd |-> rd,
   write_fds |-> [null |-> TRUE, fds |-> {}], write_fd |-> write_fd,
   o |-> Oracle(f, rjit, rbyte, ubgo),
   calm |-> (f = NoFault /\ read_fd = NULL)]

(* ares_process_fd with nothing readable or writable *)
IdleInputsOf(faults) ==
  {TickIn(NULL, NoRead, NULL, f, r, b, FALSE) :
     f \in IF Overdue THEN faults ELSE {NoFault}, r \in JitterDraws,
     b \in IF Overdue THEN ByteDraws ELSE {0}}

(* ares_process_fd with one frame to read from a connection *)
ReadInputsOf(wfaults, responses) ==
  {TickIn(c, [data |-> <<m>>, term |-> WOULDBLOCK], NULL, f, 0, b, FALSE) :
     c \in OpenConns, m \in responses, f \in wfaults, b \in ByteDraws}

(* ares_process_fd with a read that fails *)
ReadErrInputsOf(rerrs) ==
  {TickIn(c, [data |-> <<>>, term |-> t], NULL, NoFault, 0, b, FALSE) :
     c \in OpenConns, t \in rerrs, b \in ByteDraws}

(* ares_process_fd with a writable socket *)
WriteInputsOf(wfaults) ==
  {TickIn(NULL, NoRead, c, f, 0, 0, FALSE) :
     c \in WritableConns, f \in wfaults}

TickInputsOf(faults, wfaults, responses, rerrs) ==
  IdleInputsOf(faults) \cup ReadInputsOf(wfaults, responses)
  \cup ReadErrInputsOf(rerrs) \cup WriteInputsOf(wfaults)

(* the frames a server can send: answers of every kind to the queries in *)
(* flight, and frames that are no answer to any of them                  *)
Responses ==
  UNION {RespOf(q) : q \in byqid} \cup Late \cup {Stray, Malformed, Empty}

TickInputs ==
  TickInputsOf(Faults, {NoFault, WriteRefused, OpenRefused}, Responses,
               {READ_ERR, READ_NOMEM})

SubmitIn(q, opt, nr, f, rbyte) ==
  [q |-> q, opt |-> opt, no_retries |-> nr, o |-> Oracle(f, 0, rbyte, FALSE),
   calm |-> f = NoFault]

(* the application sends its next query, at most budget of them *)
SubmitInputsOf(budget, opts, nrs, faults) ==
  {SubmitIn(q, opt, nr, f, b) :
     q \in {x \in Qids : /\ x <= budget
                         /\ queries[x].st = "new"
                         /\ \A p \in Qids : p < x => queries[p].st # "new"},
     opt \in opts, nr \in nrs, f \in faults, b \in ByteDraws}

SubmitInputs == SubmitInputsOf(SoloQueries, BOOLEAN, BOOLEAN, Faults)

(* ------------------------------ actions -------------------------------- *)
(* ares_send: a new query enters the table and is dispatched *)
DoSubmit(in) ==
  LET s0 == Enter(in.o)
      s1 == [s0 EXCEPT !.q[in.q] = [BlankQuery("live") EXCEPT
                                      !.opt = in.opt,
                                      !.no_retries = in.no_retries],
                       !.byqid = @ \cup {in.q},
                       !.allq = @ \cup {in.q}]
  IN  call("ares__send_query", s1, <<in.q, tvnow(s1)>>)

Submit(in) ==
  /\ \E s \in {DoSubmit(in)} : Leave(s, in.calm)
  /\ UNCHANGED beat

(* ares_process_fd(channel, read_fd, write_fd) *)
DoTick(in) ==
  call("processfds", Enter(in.o),
       <<in.read_fds, in.read_fd, in.rd, in.write_fds, in.write_fd>>)

ProcessFd(in) ==
  /\ \E s \in {DoTick(in)} : Leave(s, in.calm)
  /\ UNCHANGED beat

(* ares_process_pending_write(channel) *)
PendingWrite(in) ==
  /\ \E s \in {ares_process_pending_write(Enter(in.o))} : Leave(s, in.calm)
  /\ UNCHANGED beat

(* time passes *)
ClockAdvance(maxsec) ==
  /\ clock.sec < maxsec
  /\ clock' = timeadd(clock, StepMs)
  /\ UNCHANGED <<channel, servers, order, conns, queries, tq, byqid, allq, cbn,
                 npw, sends, heard, quiet, beat>>

(* one query at a time, every kind of response and transport fault *)
Next ==
  \/ \E in \in SubmitInputs : Submit(in)
  \/ \E in \in TickInputs : ProcessFd(in)
  \/ ClockAdvance(MaxSec)

Spec == Init /\ [][Next]_vars

(* two queries in flight together, fewer kinds of response and fault *)
PairConfigs == {DefaultChannel, RotateChannel}

PairResponses ==
  UNION {{RespOk(q), RespRcode(q, RC_SERVFAIL)} : q \in byqid}
  \cup Late \cup {Malformed}

PairTickInputs ==
  TickInputsOf({NoFault, WriteRefused}, {NoFault, WriteRefused}, PairResponses,
               {READ_ERR})

PairSubmitInputs == SubmitInputsOf(MaxQueries, {FALSE}, {FALSE}, {NoFault})

NextPair ==
  \/ \E in \in PairSubmitInputs : Submit(in)
  \/ \E in \in PairTickInputs : ProcessFd(in)
  \/ ClockAdvance(MaxSec)

PairSpec == InitWith(PairConfigs) /\ [][NextPair]_vars

(* the host keeps calling the tick entry point and the clock keeps going   *)
(* for as long as a query in flight has its deadline ahead                  *)
ClockChase ==
  /\ \E q \in SeqElems(tq) : ~timedout(clock, queries[q].timeout)
  /\ clock' = timeadd(clock, StepMs)
  /\ UNCHANGED <<channel, servers, order, conns, queries, tq, byqid, allq, cbn,
                 npw, sends, heard, quiet, beat>>

(* a call of the tick entry point, counted *)
HostTick(in) ==
  /\ \E s \in {DoTick(in)} : Leave(s, in.calm)
  /\ beat' = ~beat

NextLive ==
  \/ \E in \in SubmitInputs : Submit(in)
  \/ \E in \in TickInputs : HostTick(in)
  \/ ClockChase

LiveSpec == InitWith({DefaultChannel}) /\ [][NextLive]_vars /\ WF_vars(ClockChase)

(* the host calls the tick entry point again and again *)
HostKeepsTicking == []<>beat /\ []<>~beat

(* Two queries whose answers may be truncated: complete and truncated      *)
(* answers, each read from the connection its query is in flight on (a     *)
(* truncated answer read again from the UDP connection would have the      *)
(* query sent again without end), failing reads, writes and opens, sockets *)
(* becoming writable.                                                      *)
TcpConfigs == {DefaultChannel, [DefaultChannel EXCEPT !.flags = {FLAG_IGNTC}]}

TcpResponses == UNION {{RespOk(q), RespTc(q)} : q \in byqid}

TcpTickInputs ==
  {in \in TickInputsOf({NoFault, WriteRefused},
                       {NoFault, WriteRefused, OpenRefused},
                       TcpResponses, {READ_ERR}) :
     (in.read_fd # NULL /\ in.rd.data # <<>>) =>
       queries[in.rd.data[1].id].conn = in.read_fd}

NextTcp ==
  \/ \E in \in PairSubmitInputs : Submit(in)
  \/ \E in \in TcpTickInputs : ProcessFd(in)
  \/ ClockAdvance(MaxSec)

TcpSpec == InitWith(TcpConfigs) /\ [][NextTcp]_vars

(* Two queries on a channel that fails over, with and without the chance   *)
(* of retrying a failed server.                                            *)
(* the ticks of the two-query specification, and the same ticks with the   *)
(* clock going on by one step while they run                               *)
FailoverTickInputs ==
  PairTickInputs
  \cup {[in EXCEPT !.o.drift = StepMs] :
          in \in {x \in PairTickInputs : clock.sec < MaxSec}}

NextFailover ==
  \/ \E in \in PairSubmitInputs : Submit(in)
  \/ \E in \in FailoverTickInputs : ProcessFd(in)
  \/ ClockAdvance(MaxSec)

FailoverSpec ==
  InitWith({DefaultChannel, RetryChannel}) /\ [][NextFailover]_vars

(* two queries and a second round of tries, in which the timeout doubles *)
BackoffResponses ==
  UNION {{RespOk(q), RespRcode(q, RC_SERVFAIL)} : q \in byqid}

BackoffTickInputs == TickInputsOf({NoFault}, {NoFault}, BackoffResponses, {})

NextBackoff ==
  \/ \E in \in PairSubmitInputs : Submit(in)
  \/ \E in \in BackoffTickInputs : ProcessFd(in)
  \/ ClockAdvance(MaxSec)

BackoffSpec ==
  InitWith({[DefaultChannel EXCEPT !.tries = Tries + 1]}) /\ [][NextBackoff]_vars

(* two queries and two rounds of tries, with no upper limit of the         *)
(* timeout and with a limit below the base timeout, between the base and   *)
(* its double, at its double and beyond it                                 *)
TimeoutSpec ==
  /\ InitWith({[DefaultChannel EXCEPT !.tries = Tries + 1, !.maxtimeout = m] :
                 m \in {0, StepMs - 100, StepMs + StepMs \div 2, 2 * StepMs,
                        3 * StepMs}})
  /\ [][NextBackoff]_vars

(* Two queries whose responses carry every question section of up to       *)
(* MaxQuestions questions, with and without 0x20 case randomisation; a      *)
(* truncated response moves a query to TCP.                                 *)
QuestionConfigs == {DefaultChannel, [DefaultChannel EXCEPT !.flags = {FLAG_DNS0x20}]}

QuestionSections ==
  UNION {[1..n -> [name : {<<"E", "x">>, <<"e", "x">>, <<"f", "x">>},
                   qtype : {"A", "AAAA"}, qclass : {"IN", "CH"}]] :
           n \in 0..MaxQuestions}

QuestionResponses ==
  UNION {{Resp(q, qd, RC_NOERROR, FALSE, TRUE, TRUE) : qd \in QuestionSections}
         \cup {RespTc(q)} : q \in byqid}

QuestionTickInputs ==
  {in \in TickInputsOf({NoFault}, {NoFault}, QuestionResponses, {}) :
     (in.read_fd # NULL /\ in.rd.data # <<>>) =>
       queries[in.rd.data[1].id].conn = in.read_fd}

NextQuestion ==
  \/ \E in \in PairSubmitInputs : Submit(in)
  \/ \E in \in QuestionTickInputs : ProcessFd(in)
  \/ ClockAdvance(MaxSec)

QuestionSpec == InitWith(QuestionConfigs) /\ [][NextQuestion]_vars

(* Two queries on a channel with servers or with none, where opening a     *)
(* connection is refused, has no usable address family or runs out of      *)
(* memory, and writing a query runs out of memory.                         *)
DispatchFaults ==
  {NoFault}
  \cup {[open |-> [AllOk EXCEPT ![sv] = st], write |-> AllOk] :
          sv \in Servers, st \in {ECONNREFUSED, EBADFAMILY, ENOMEM}}
  \cup {[open |-> AllOk, write |-> [AllOk EXCEPT ![sv] = ENOMEM]] :
          sv \in Servers}

DispatchSubmitInputs ==
  SubmitInputsOf(MaxQueries, {FALSE}, {FALSE}, DispatchFaults)

DispatchTickInputs ==
  TickInputsOf(DispatchFaults, {NoFault}, {RespOk(q) : q \in byqid}, {})

NextDispatch ==
  \/ \E in \in DispatchSubmitInputs : Submit(in)
  \/ \E in \in DispatchTickInputs : ProcessFd(in)
  \/ ClockAdvance(MaxSec)

DispatchSpec ==
  InitFrom({DefaultChannel}, {<<>>, [i \in 1..NumServers |-> i]})
  /\ [][NextDispatch]_vars

(* Two queries, the second one submitted by the application or from inside *)
(* the callback of the first; answers, timeouts and writes out of memory.  *)
ReentrantSubmitInputs ==
  {[in EXCEPT !.o.cbsub = b] :
     in \in SubmitInputsOf(MaxQueries, {FALSE}, {FALSE},
                          {NoFault, [open |-> AllOk,
                                     write |-> [sv \in Servers |-> ENOMEM]]}),
     b \in BOOLEAN}

ReentrantTickInputs ==
  {[in EXCEPT !.o.cbsub = b] :
     in \in TickInputsOf({NoFault}, {NoFault, [open |-> AllOk,
                                     write |-> [sv \in Servers |-> ENOMEM]]},
                        {RespOk(q) : q \in byqid}, {}),
     b \in BOOLEAN}

NextReentrant ==
  \/ \E in \in ReentrantSubmitInputs : Submit(in)
  \/ \E in \in ReentrantTickInputs : ProcessFd(in)
  \/ ClockAdvance(MaxSec)

ReentrantSpec == InitWith(PairConfigs) /\ [][NextReentrant]_vars

(* Two queries on a channel with or without a notify_pending_write_cb,     *)
(* driven by readiness sets (ares_process) and by calls of                 *)
(* ares_process_pending_write: a socket flagged readable yields one        *)
(* response, a truncated one to a query in flight on it or a SERVFAIL to   *)
(* any query in flight; the sockets that wait to be written are flagged    *)
(* writable together or not at all.                                        *)
SelectResponses(c) ==
  {RespTc(q) : q \in SeqElems(conns[c].queue)}
  \cup {RespRcode(q, RC_SERVFAIL) : q \in byqid}

SelectTickInputs ==
  {[TickIn(NULL, NoRead, NULL, f, 0, b, FALSE) EXCEPT
      !.read_fds = [null |-> FALSE,
                    fds |-> {c \in ConnIds : rds[c].data # <<>>}],
      !.write_fds = [null |-> FALSE, fds |-> w],
      !.o.rds = rds,
      !.calm = (f = NoFault /\ \A c \in ConnIds : rds[c].data = <<>>)] :
     rds \in {r \in [ConnIds -> {NoRead} \cup
                                 {[data |-> <<m>>, term |-> WOULDBLOCK] :
                                    m \in UNION {SelectResponses(c) :
                                                   c \in OpenConns}}] :
                \A c \in ConnIds :
                  /\ c \notin OpenConns => r[c] = NoRead
                  /\ r[c] # NoRead => r[c].data[1] \in SelectResponses(c)},
     w \in {{}, WritableConns}, f \in {NoFault, WriteRefused},
     b \in ByteDraws}

(* ares_process(channel, read_fds, write_fds) *)
Process(in) ==
  /\ \E s \in {DoTick(in)} : Leave(s, in.calm)
  /\ UNCHANGED beat

(* ares_process_pending_write with every write accepted, or refused by one *)
(* server or by all                                                         *)
PendingInputs ==
  {[o |-> Oracle(f, 0, 0, FALSE), calm |-> f = NoFault] :
     f \in {NoFault, WriteRefused}
            \cup {[open |-> AllOk, write |-> [AllOk EXCEPT ![sv] = ECONNREFUSED]] :
                    sv \in Servers}}

(* ares_process_fd with a read of two frames, the first one malformed, or *)
(* of one frame followed by a read that fails                              *)
BurstInputs ==
  {TickIn(c, rd, NULL, NoFault, 0, 0, FALSE) :
     c \in OpenConns,
     rd \in UNION {{[data |-> <<Malformed, RespOk(q)>>, term |-> WOULDBLOCK],
                    [data |-> <<RespOk(q)>>, term |-> READ_ERR]} : q \in byqid}}

NextSelect ==
  \/ \E in \in PairSubmitInputs : Submit(in)
  \/ \E in \in SelectTickInputs : Process(in)
  \/ \E in \in BurstInputs : ProcessFd(in)
  \/ \E in \in PendingInputs : PendingWrite(in)

SelectSpec ==
  InitWith({DefaultChannel,
            [DefaultChannel EXCEPT !.notify_pending_write_cb = TRUE]})
  /\ [][NextSelect]_vars

(* ------------------------------ observations --------------------------- *)
(* the channel as it stands between two handlers *)
Here == Enter(Oracle(NoFault, 0, 0, FALSE))

(* what the handlers of the two-query specification can return *)
PairOutcomes ==
  {DoTick(in) : in \in PairTickInputs} \cup {DoSubmit(in) : in \in PairSubmitInputs}

(* the positions in the log of the events of one kind about query q *)
QEvents(s, kind, q) == {i \in Events(s, kind) : s.log[i].q = q}

Ended(q) == queries[q].st = "done"

InNoIndex(s, q) ==
  /\ q \notin s.byqid
  /\ q \notin s.allq
  /\ q \notin SeqElems(s.tq)
  /\ ~InSomeQueue(s, q)

(* nothing the handler did was about q *)
Untouched(s, q) ==
  /\ s.q[q] = queries[q]
  /\ s.cbn[q] = cbn[q]
  /\ \A kind \in {"cb", "send", "requeue", "exhaust"} : QEvents(s, kind, q) = {}
  /\ \A i \in Events(s, "ans") : s.log[i].q # q

(* ------------------------------ C1 ------------------------------------- *)
(* C1: while the host keeps calling the tick entry point and the clock      *)
(* keeps advancing, every query in flight sooner or later has had its       *)
(* callback run, once, and is in none of the indexes of the query table,    *)
(* whatever responses, read and write errors and timeouts come in between.  *)
C1_EveryQueryEnds ==
  HostKeepsTicking =>
    \A q \in Qids :
      (queries[q].st = "live")
        ~> (Ended(q) /\ cbn[q] = 1 /\ InNoIndex(Here, q))

(* a query has ended after time has passed and something went wrong *)
C1_EndedTheHardWay ==
  \E q \in Qids : Ended(q) /\ cbn[q] = 1 /\ clock # TimeZero /\ ~quiet

(* ------------------------------ C2 ------------------------------------- *)
(* C2: a query's callback runs at most once, and only while the query is   *)
(* live; a query that has ended is in none of queries_by_qid, all_queries, *)
(* queries_by_timeout or a connection's queries_to_conn, and whatever a     *)
(* later handler is given (a late response with its qid, a timeout, a      *)
(* failing read that closes a connection) leaves it alone.                 *)
C2_CallbackOnce ==
  /\ \A q \in Qids : cbn[q] <= 1 /\ (Ended(q) <=> cbn[q] = 1)
  /\ \A q \in Qids : Ended(q) => InNoIndex(Here, q)
  /\ \A s \in PairOutcomes : \A q \in Qids :
       /\ s.cbn[q] <= 1
       /\ \A i \in QEvents(s, "cb", q) : s.log[i].live
       /\ s.q[q].st = "done" => InNoIndex(s, q)
       /\ Ended(q) => Untouched(s, q) /\ InNoIndex(s, q)

(* a query has ended while a connection is still open, and its late answer *)
(* arrives there                                                            *)
C2_LateAnswer ==
  \E q \in Qids : \E in \in PairTickInputs :
    /\ Ended(q)
    /\ in.read_fd # NULL
    /\ in.rd.data = <<RespOk(q)>>
    /\ Events(DoTick(in), "ans") # {}

(* ------------------------------ C6 ------------------------------------- *)
(* C6: between handlers, for every query q these are equivalent: q.conn is *)
(* set; q is in some connection's queries_to_conn; q is in                 *)
(* queries_by_timeout.  The list q is in is that of q.conn, which is open, *)
(* and q is in it once.                                                    *)
C6_ConnIndexes ==
  \A q \in Qids :
    /\ (queries[q].conn # NULL) <=> InSomeQueue(Here, q)
    /\ (queries[q].conn # NULL) <=> (q \in SeqElems(tq))
    /\ queries[q].conn # NULL =>
         /\ queries[q].st = "live"
         /\ conns[queries[q].conn].open
         /\ \A c \in ConnIds :
              Cardinality({i \in 1..Len(conns[c].queue) : conns[c].queue[i] = q})
                = IF c = queries[q].conn THEN 1 ELSE 0
         /\ Cardinality({i \in 1..Len(tq) : tq[i] = q}) = 1

(* both queries are attached, one of them after a requeue *)
C6_Attached ==
  /\ \A q \in Qids : queries[q].st = "live" /\ queries[q].conn # NULL
  /\ \E q \in Qids : queries[q].try_count > 0

(* ------------------------------ C7 ------------------------------------- *)
(* the frame a tick reads, and whether it is an answer to a query in flight *)
Frame(in) == in.rd.data[1]

Reads(in) == in.read_fd # NULL /\ in.rd.data # <<>>

Matches(in) ==
  /\ Reads(in)
  /\ Frame(in).kind = "msg"
  /\ Frame(in).id \in byqid
  /\ same_questions(Here, Frame(in).id, Frame(in))
  /\ Frame(in).cookie

(* C7: whatever response arrives and whichever path process_answer takes, *)
(* the resend and requeue calls it makes included, the connection the       *)
(* response arrived on is still open when process_answer returns.           *)
C7_ArrivalConnStaysOpen ==
  \A in \in TickInputs :
    LET s == DoTick(in)
    IN  \A i \in Events(s, "ans") : s.log[i].open

(* the same for the paths of process_answer that send nothing *)
C7_DropAndAcceptKeepOpen ==
  \A in \in TickInputs :
    LET s == DoTick(in)
    IN  \A i \in Events(s, "ans") :
          s.log[i].path \notin {"edns", "tc", "rcode"} => s.log[i].open

(* ------------------------------ C3 ------------------------------------- *)
(* the tick reads the first response looked up for a query in flight, and   *)
(* it matches the questions, is NOERROR, not truncated, its cookie valid    *)
FirstGoodAnswer(in) ==
  /\ Matches(in)
  /\ Frame(in).id \notin heard
  /\ Frame(in).rcode = RC_NOERROR
  /\ ~Frame(in).tc

(* the callback ran once for q in the handler, with this status and count *)
CalledBackOnce(s, q, status, timeouts) ==
  /\ Cardinality(QEvents(s, "cb", q)) = 1
  /\ \A i \in QEvents(s, "cb", q) :
       s.log[i].status = status /\ s.log[i].timeouts = timeouts
  /\ s.cbn[q] = 1
  /\ s.q[q].st = "done"

(* server_set_good ran for the server and left it with no failure *)
MarkedGood(s, sv) ==
  \E i \in Events(s, "good") :
    /\ s.log[i].sv = sv
    /\ s.log[i].fails = 0
    /\ s.log[i].retry = TimeZero

(* C3 as amended: such a response completes the query with one callback,   *)
(* status SUCCESS and timeouts equal to the timeouts the query has been     *)
(* through before (0 when it had none); the server of the receiving         *)
(* connection is marked good; the query is not sent again.                  *)
C3_FirstAnswerCompletes ==
  \A in \in PairTickInputs :
    FirstGoodAnswer(in) =>
      LET s == DoTick(in)
          q == Frame(in).id
      IN  /\ CalledBackOnce(s, q, SUCCESS, queries[q].timeouts)
          /\ MarkedGood(s, conns[in.read_fd].server)
          /\ QEvents(s, "send", q) = {}
          /\ QEvents(s, "requeue", q) = {}

(* C3 as stated: the callback reports timeouts = 0 *)
C3_TimeoutsZero ==
  \A in \in PairTickInputs :
    FirstGoodAnswer(in) =>
      LET s == DoTick(in)
          q == Frame(in).id
      IN  /\ CalledBackOnce(s, q, SUCCESS, 0)
          /\ MarkedGood(s, conns[in.read_fd].server)
          /\ QEvents(s, "send", q) = {}

(* the first response of a query arrives from a server that had failures,  *)
(* after the query has timed out once                                       *)
C3_AnswerAfterTimeout ==
  \E in \in PairTickInputs :
    /\ FirstGoodAnswer(in)
    /\ queries[Frame(in).id].timeouts > 0
    /\ servers[conns[in.read_fd].server].consec_failures > 0

(* ------------------------------ C4 ------------------------------------- *)
MaxTries == Len(order) * channel.tries

(* a tick with nothing to read or write while every transport call works *)
CalmTicks == IdleInputsOf({NoFault})

(* C4: while no response has arrived and every send has succeeded, each    *)
(* dispatch of a query has ended in one timeout but the one in flight, a    *)
(* query is never dispatched more than num_servers * tries times, and when *)
(* its callback runs it runs once, with status TIMEOUT and timeouts equal   *)
(* to num_servers * tries, after exactly that many dispatches.              *)
C4_SilentServers ==
  quiet =>
    /\ \A q \in Qids :
         queries[q].st = "live" =>
           /\ sends[q] = queries[q].timeouts + 1
           /\ sends[q] <= MaxTries
           /\ queries[q].try_count = queries[q].timeouts
    /\ \A in \in CalmTicks :
         LET s == DoTick(in)
         IN  Events(s, "noslot") = {} =>
               \A q \in Qids :
                 QEvents(s, "cb", q) # {} =>
                   /\ CalledBackOnce(s, q, ETIMEOUT, MaxTries)
                   /\ \A i \in QEvents(s, "cb", q) : s.log[i].sends = MaxTries

(* the last timeout of a query no server has answered *)
C4_LastTimeout ==
  /\ quiet
  /\ \E in \in CalmTicks : \E q \in Qids :
       /\ Events(DoTick(in), "noslot") = {}
       /\ QEvents(DoTick(in), "cb", q) # {}

(* ------------------------------ C5 ------------------------------------- *)
(* what the handlers of the one-query specification can return *)
Outcomes ==
  {DoTick(in) : in \in TickInputs} \cup {DoSubmit(in) : in \in SubmitInputs}

Last(S) == CHOOSE i \in S : \A j \in S : j <= i

(* the last non-SUCCESS status recorded for q up to the j'th event of the  *)
(* handler, SUCCESS if there never was one                                  *)
Sticky(s, q, j) ==
  LET R == {k \in QEvents(s, "requeue", q) :
              k <= j /\ s.log[k].status # SUCCESS}
  IN  IF R = {} THEN queries[q].error_status ELSE s.log[Last(R)].status

(* the requeue_query call logged at j found the retries of q exhausted *)
Exhausted(s, q, j) ==
  s.log[j].try >= Len(s.order) * s.ch.tries \/ s.log[j].nr

(* requeue_query as logged at j has sent q on: what it logs next about q is *)
(* not its own end of the query                                              *)
SentOn(s, q, j) ==
  LET later == {k \in QEvents(s, "requeue", q) \cup QEvents(s, "exhaust", q) :
                  k > j}
  IN  later # {} =>
        s.log[CHOOSE k \in later : \A l \in later : k <= l].e = "requeue"

(* from j on the log holds the callback of q with this status, then the    *)
(* return of requeue_query with TIMEOUT                                     *)
EndsWith(s, q, j, status) ==
  \E c \in QEvents(s, "cb", q) : \E x \in QEvents(s, "exhaust", q) :
    /\ j < c /\ c < x
    /\ \A k \in (j + 1)..(x - 1) : k = c \/ s.log[k].e = "empty"
    /\ s.log[c].status = status
    /\ s.log[x].ret = ETIMEOUT

(* C5: when requeue_query finds the retries exhausted (try_count at least  *)
(* num_servers * tries, or the query marked no_retries) the callback gets   *)
(* the last non-SUCCESS status recorded for the query, TIMEOUT if there     *)
(* never was one, and requeue_query returns TIMEOUT; otherwise            *)
(* requeue_query does not end the query itself.                             *)
C5_ExhaustionStatus ==
  \A s \in Outcomes : \A q \in Qids : \A j \in QEvents(s, "requeue", q) :
    IF Exhausted(s, q, j)
    THEN EndsWith(s, q, j, IF Sticky(s, q, j) # SUCCESS
                           THEN Sticky(s, q, j) ELSE ETIMEOUT)
    ELSE SentOn(s, q, j)

(* retries run out in a requeue that records nothing, after an error was   *)
(* recorded by an earlier one                                               *)
C5_StickyDelivered ==
  \E s \in Outcomes : \E q \in Qids : \E j \in QEvents(s, "requeue", q) :
    /\ Exhausted(s, q, j)
    /\ s.log[j].status = SUCCESS
    /\ Sticky(s, q, j) \notin {SUCCESS, ETIMEOUT}

(* ------------------------------ C8 ------------------------------------- *)
(* which step of process_answer a matching response is for *)
ForDowngrade(in) ==
  /\ Matches(in)
  /\ Frame(in).rcode = RC_FORMERR
  /\ ~Frame(in).opt
  /\ queries[Frame(in).id].opt

ForUpgrade(in) ==
  /\ Matches(in)
  /\ ~ForDowngrade(in)
  /\ Frame(in).tc
  /\ ~conns[in.read_fd].tcp
  /\ FLAG_IGNTC \notin channel.flags

ForRequeue(in) ==
  /\ Matches(in)
  /\ ~ForDowngrade(in)
  /\ ~ForUpgrade(in)
  /\ FLAG_NOCHECKRESP \notin channel.flags
  /\ Frame(in).rcode \in {RC_SERVFAIL, RC_NOTIMP, RC_REFUSED}

Acceptable(in) ==
  /\ Matches(in)
  /\ ~ForDowngrade(in)
  /\ ~ForUpgrade(in)
  /\ ~ForRequeue(in)

(* every transport call of the tick works *)
Works(in, s) == in.o.open = AllOk /\ in.o.write = AllOk /\ Events(s, "noslot") = {}

(* process_answer took this path for the frame and returned SUCCESS *)
Took(s, path) ==
  /\ Cardinality(Events(s, "ans")) = 1
  /\ \A i \in Events(s, "ans") : s.log[i].path = path /\ s.log[i].ret = SUCCESS

(* the response was not handed to the callback of q *)
NotDelivered(s, q) ==
  \A i \in QEvents(s, "cb", q) : s.log[i].status # SUCCESS

(* q went out once, and is in flight on the connection it went out on *)
SentOnce(s, q) ==
  /\ QEvents(s, "cb", q) = {}
  /\ Cardinality(QEvents(s, "send", q)) = 1
  /\ s.q[q].st = "live"
  /\ \A i \in QEvents(s, "send", q) : s.log[i].c = s.q[q].conn

(* C8: a matching response with TC set that arrives over UDP, FLAG_IGNTC    *)
(* not configured, is not handed to the callback; using_tcp is set and the  *)
(* query goes out again over TCP only; when every transport call works it  *)
(* goes out once, on the TCP connection of the selected server, which is    *)
(* opened for it if the server has none; and a query that has been upgraded *)
(* completes with SUCCESS on a later matching response that is not          *)
(* truncated and is acceptable.                                             *)
C8_TruncatedGoesToTcp ==
  \A in \in TickInputs :
    LET s == DoTick(in)
        q == Frame(in).id
    IN  /\ ForUpgrade(in) =>
             /\ Took(s, "tc")
             /\ NotDelivered(s, q)
             /\ \A i \in QEvents(s, "send", q) : s.log[i].tcp
             /\ s.q[q].st = "live" =>
                  s.q[q].using_tcp /\ s.conn[s.q[q].conn].tcp
             /\ Works(in, s) =>
                  /\ SentOnce(s, q)
                  /\ LET had == servers[s.conn[s.q[q].conn].server].tcp_conn
                     IN  IF had = NULL THEN s.q[q].conn \notin OpenConns
                         ELSE s.q[q].conn = had
        /\ (Acceptable(in) /\ queries[q].using_tcp /\ ~Frame(in).tc) =>
             CalledBackOnce(s, q, SUCCESS, queries[q].timeouts)

(* a truncated answer arrives over UDP for a query whose server has a TCP   *)
(* connection already, on which another, upgraded query awaits its answer   *)
C8_JoinsTcpConn ==
  \E in \in TickInputs :
    /\ ForUpgrade(in)
    /\ ~queries[Frame(in).id].using_tcp
    /\ LET s == DoTick(in)
           q == Frame(in).id
       IN  /\ Works(in, s)
           /\ s.q[q].conn \in OpenConns
           /\ \E p \in byqid \ {q} :
                queries[p].using_tcp /\ queries[p].conn = s.q[q].conn

(* ------------------------------ C9 ------------------------------------- *)
(* C9: a matching FORMERR response without OPT RR to a query whose record   *)
(* has one is not handed to the callback; the OPT RR is removed and the     *)
(* query goes out again, once when every transport call works; no handler   *)
(* puts an OPT RR back, and a further FORMERR without OPT RR is accepted    *)
(* instead of downgrading again; a query without OPT RR completes with      *)
(* SUCCESS on the next matching acceptable response.                        *)
C9_EdnsDowngradeOnce ==
  /\ \A in \in TickInputs :
       LET s == DoTick(in)
           q == Frame(in).id
       IN  /\ ForDowngrade(in) =>
                /\ Took(s, "edns")
                /\ NotDelivered(s, q)
                /\ s.q[q].st = "live" => ~s.q[q].opt
                /\ Works(in, s) => SentOnce(s, q) /\ ~s.q[q].opt
           /\ (Matches(in) /\ Frame(in).rcode = RC_FORMERR /\ ~queries[q].opt) =>
                \A i \in Events(s, "ans") : s.log[i].path # "edns"
           /\ (Acceptable(in) /\ ~queries[q].opt) =>
                CalledBackOnce(s, q, SUCCESS, queries[q].timeouts)
  /\ \A s \in Outcomes : \A q \in byqid : s.q[q].opt => queries[q].opt

(* a query sent with an OPT RR has lost it and receives FORMERR again *)
C9_SecondFormerr ==
  \E in \in TickInputs :
    /\ Matches(in)
    /\ Frame(in).rcode = RC_FORMERR
    /\ ~Frame(in).opt
    /\ ~queries[Frame(in).id].opt
    /\ Frame(in).id \in heard
    /\ sends[Frame(in).id] = 2
    /\ queries[Frame(in).id].try_count = 0
    /\ ~queries[Frame(in).id].using_tcp

(* ------------------------------ C10 ------------------------------------ *)
(* the events process_answer logged while it handled the frame *)
Span(s) == UNION {s.log[i].from .. i : i \in Events(s, "ans")}

StatusOf(rcode) ==
  CASE rcode = RC_SERVFAIL -> ESERVFAIL
    [] rcode = RC_NOTIMP   -> ENOTIMP
    [] OTHER               -> EREFUSED

(* server_increment_failures, then requeue_query with the status of the    *)
(* rcode and the try counted, are the first things process_answer does      *)
FailedAndRequeued(s, in) ==
  \A a \in Events(s, "ans") :
    LET f == s.log[a].from
    IN  /\ f + 1 < a
        /\ s.log[f].e = "fail"
        /\ s.log[f].sv = conns[in.read_fd].server
        /\ s.log[f].fails = servers[conns[in.read_fd].server].consec_failures + 1
        /\ s.log[f + 1].e = "requeue"
        /\ s.log[f + 1].q = Frame(in).id
        /\ s.log[f + 1].status = StatusOf(Frame(in).rcode)
        /\ s.log[f + 1].inc
        /\ s.log[f + 1].try = queries[Frame(in).id].try_count + 1

(* process_answer did nothing about the other queries of the connection *)
OthersUndisturbed(s, in) ==
  \A p \in SeqElems(conns[in.read_fd].queue) \ {Frame(in).id} :
    \A k \in Span(s) : "q" \in DOMAIN s.log[k] => s.log[k].q # p

(* C10: a matching SERVFAIL, NOTIMP or REFUSED response, FLAG_NOCHECKRESP   *)
(* unset, counts one failure for the server and requeues the query with     *)
(* the try counted and the status of the rcode; process_answer returns      *)
(* SUCCESS, the connection is still open and process_answer has done        *)
(* nothing about the other queries in flight on it.                         *)
C10_RcodeRequeue ==
  \A in \in PairTickInputs :
    ForRequeue(in) =>
      LET s == DoTick(in)
      IN  /\ Took(s, "rcode")
          /\ FailedAndRequeued(s, in)
          /\ \A a \in Events(s, "ans") : s.log[a].open
          /\ OthersUndisturbed(s, in)

(* the part of C10 about the failure count, the requeue and the status     *)
(* returned                                                                 *)
C10_CountsAndRequeues ==
  \A in \in PairTickInputs :
    ForRequeue(in) =>
      LET s == DoTick(in)
      IN  Took(s, "rcode") /\ FailedAndRequeued(s, in)

(* ------------------------------ C11 ------------------------------------ *)
(* the first server of the sorted order that has failed and whose retry    *)
(* time has been reached, as a selection recorded in event e saw it        *)
RetryOf(e) ==
  LET due == {i \in 1..Len(e.order) :
                /\ e.srv[e.order[i]].consec_failures > 0
                /\ ~TimeLess(e.now, e.srv[e.order[i]].next_retry_time)}
  IN  IF due = {} THEN NULL
      ELSE e.order[CHOOSE i \in due : \A j \in due : i <= j]

(* C11: in failover mode every selection picks the first server of the     *)
(* sorted order or, only when server_retry_chance > 0 and some server has   *)
(* failures, the first server in sorted order with consec_failures > 0     *)
(* whose next_retry_time has been reached; with server_retry_chance = 0 no *)
(* server is selected while another has strictly fewer consecutive         *)
(* failures.                                                               *)
C11_FailoverSelection ==
  \A s \in PairOutcomes :
    \A i \in Events(s, "pick") :
      LET e == s.log[i]
      IN  /\ \/ e.sv = e.order[1]
             \/ /\ s.ch.server_retry_chance > 0
                /\ \E x \in Servers : e.srv[x].consec_failures > 0
                /\ e.sv = RetryOf(e)
          /\ s.ch.server_retry_chance = 0 =>
               \A x \in Servers :
                 e.srv[e.sv].consec_failures <= e.srv[x].consec_failures

(* a failed server whose retry time has come is selected although another  *)
(* server has no failures                                                  *)
C11_FailedServerRetried ==
  \E s \in PairOutcomes :
    \E i \in Events(s, "pick") :
      /\ s.log[i].sv # s.log[i].order[1]
      /\ s.log[i].srv[s.log[i].order[1]].consec_failures = 0

(* ------------------------------ C12 ------------------------------------ *)
(* ord holds every server once, by (consec_failures, index) ascending *)
SortedServers(ord, srv) ==
  /\ Len(ord) = NumServers
  /\ SeqElems(ord) = Servers
  /\ \A i, j \in 1..Len(ord) : i < j => ServerLess(srv, ord[i], ord[j])

(* C12: between handlers the server list is sorted by consec_failures      *)
(* ascending, ties by configuration index ascending, and so it is whenever  *)
(* a handler selects a server, whatever changed consec_failures before      *)
C12_ServersSorted ==
  /\ SortedServers(order, servers)
  /\ \A s \in PairOutcomes : \A i \in Events(s, "pick") :
       SortedServers(s.log[i].order, s.log[i].srv)

(* a failure moved the first configured server behind the second one, and *)
(* in some handler a success moves it back to the front                    *)
C12_FailedServerMovedBack ==
  /\ order[1] # 1
  /\ servers[1].consec_failures > 0
  /\ \E s \in PairOutcomes :
       /\ s.order[1] = 1
       /\ \E i \in Events(s, "good") : s.log[i].sv = 1

(* ------------------------------ C13 ------------------------------------ *)
(* what the handlers of the backoff specification can return *)
BackoffOutcomes ==
  {DoTick(in) : in \in BackoffTickInputs}
  \cup {DoSubmit(in) : in \in PairSubmitInputs}

SortedTimeouts(seq, qs) ==
  \A i, j \in 1..Len(seq) :
    i < j => ~TimeLess(qs[seq[j]].timeout, qs[seq[i]].timeout)

(* C13: between handlers queries_by_timeout is in ascending order of        *)
(* deadline, and a query that a handler leaves in the sequence with another *)
(* deadline was dispatched again by it, which takes it out of the sequence  *)
(* before the deadline is written                                           *)
C13_TimeoutsSorted ==
  /\ SortedTimeouts(tq, queries)
  /\ \A s \in BackoffOutcomes : \A q \in SeqElems(tq) \cap SeqElems(s.tq) :
       s.q[q].timeout # queries[q].timeout => QEvents(s, "send", q) # {}

(* the query dispatched last has the earlier deadline and is the head *)
C13_LaterQueryFirst ==
  \E s \in BackoffOutcomes :
    /\ Len(s.tq) = 2
    /\ TimeLess(s.q[s.tq[1]].timeout, s.q[s.tq[2]].timeout)
    /\ QEvents(s, "send", s.tq[1]) # {}
    /\ QEvents(s, "send", s.tq[2]) = {}
    /\ s.tq[2] \in SeqElems(tq)

(* ------------------------------ C14 ------------------------------------ *)
(* the comparison of the question sections as the specification states it *)
QuestionsAgree(q, qd) ==
  LET qrec == QuestionsOf(q)
      sensitive == FLAG_DNS0x20 \in channel.flags /\ ~queries[q].using_tcp
  IN  /\ Len(qrec) = Len(qd)
      /\ \A i \in 1..Len(qrec) :
           /\ qrec[i].qtype = qd[i].qtype
           /\ qrec[i].qclass = qd[i].qclass
           /\ IF sensitive THEN qrec[i].name = qd[i].name
              ELSE LowerName(qrec[i].name) = LowerName(qd[i].name)

ForLiveQuery(in) ==
  Reads(in) /\ Frame(in).kind = "msg" /\ Frame(in).id \in byqid

(* C14: a response with the id of a query in flight is dropped for its      *)
(* questions exactly when the counts differ or at some index the type, the  *)
(* class or the name differs, names compared case-sensitively when 0x20 is  *)
(* configured and the query does not use TCP, else ignoring ASCII case      *)
C14_SameQuestions ==
  \A in \in QuestionTickInputs :
    ForLiveQuery(in) =>
      /\ same_questions(Here, Frame(in).id, Frame(in))
           = QuestionsAgree(Frame(in).id, Frame(in).qd)
      /\ Took(DoTick(in), "mismatch")
           <=> ~QuestionsAgree(Frame(in).id, Frame(in).qd)

(* with 0x20 configured a response in another case is dropped for a query *)
(* over UDP and accepted for a query over TCP                             *)
C14_CaseMattersOverUdpOnly ==
  /\ FLAG_DNS0x20 \in channel.flags
  /\ \E in, in2 \in QuestionTickInputs :
       /\ ForLiveQuery(in) /\ ForLiveQuery(in2)
       /\ Frame(in).qd = LowerQ(Frame(in).id)
       /\ Frame(in2).qd = LowerQ(Frame(in2).id)
       /\ queries[Frame(in).id].using_tcp
       /\ ~queries[Frame(in2).id].using_tcp
       /\ Took(DoTick(in), "accept")
       /\ Took(DoTick(in2), "mismatch")

(* ------------------------------ C15 ------------------------------------ *)
(* a well-formed response with the id of no query in flight, or with other *)
(* questions than the query of its id                                      *)
ToDrop(in) ==
  /\ Reads(in)
  /\ Frame(in).kind = "msg"
  /\ Frame(in).id \in byqid => ~QuestionsAgree(Frame(in).id, Frame(in).qd)

(* the same call of the tick entry point with nothing to read *)
WithoutRead(in) == [in EXCEPT !.read_fd = NULL, !.rd = NoRead]

(* the channel a handler leaves behind *)
ChannelOf(s) ==
  <<s.srv, s.order, s.conn, s.q, s.tq, s.byqid, s.allq, s.cbn, s.npw, s.sends,
    s.freed, s.ub>>

(* C15: a tick that reads such a response does to the channel exactly what  *)
(* the same tick does with nothing to read: process_answer returns SUCCESS   *)
(* with the connection open, and no callback, query field, index, server     *)
(* failure count or retry time differs                                       *)
C15_DroppedWithoutEffect ==
  \A in \in TickInputs :
    ToDrop(in) =>
      LET s == DoTick(in)
          t == DoTick(WithoutRead(in))
      IN  /\ Took(s, "noquery") \/ Took(s, "mismatch")
          /\ s.log[1].e = "ans" /\ s.log[1].open
          /\ Tail(s.log) = t.log
          /\ ChannelOf(s) = ChannelOf(t)

(* a response with other questions is dropped while its query waits, and *)
(* the right response on the same connection would complete the query    *)
C15_DroppedThenAnswered ==
  \E in, in2 \in TickInputs :
    /\ ToDrop(in) /\ Frame(in).id \in byqid
    /\ ~Overdue
    /\ LET s == DoTick(in)
       IN  /\ Took(s, "mismatch")
           /\ s.q[Frame(in).id] = queries[Frame(in).id]
           /\ Frame(in).id \in SeqElems(s.tq)
    /\ Reads(in2) /\ in2.read_fd = in.read_fd
    /\ Frame(in2) = RespOk(Frame(in).id)
    /\ CalledBackOnce(DoTick(in2), Frame(in).id, SUCCESS, queries[Frame(in).id].timeouts)

(* ------------------------------ C16 ------------------------------------ *)
(* the selection that started the ares__send_query call event i is part of *)
PickBefore(s, i) ==
  CHOOSE p \in Events(s, "pick") :
    p < i /\ \A x \in Events(s, "pick") : x < i => x <= p

(* event i is the callback of q with this status, the last event about q *)
EndsThere(s, i, q, status) ==
  /\ i <= Len(s.log)
  /\ s.log[i].e = "cb" /\ s.log[i].q = q /\ s.log[i].status = status
  /\ s.log[i].live
  /\ s.q[q].st = "done"
  /\ \A kind \in {"pick", "send", "requeue", "write", "cb"} :
       \A x \in QEvents(s, kind, q) : x <= i

(* the open or the write at event i failed in a way that is not retried *)
Fatal(s, i) ==
  \/ s.log[i].e = "open"
       /\ s.log[i].status \notin {SUCCESS, ECONNREFUSED, EBADFAMILY}
  \/ s.log[i].e = "write" /\ s.log[i].status = ENOMEM

(* C16: a dispatch that finds no server ends the query with NO_SERVER; an   *)
(* open that fails with CONNREFUSED or BADFAMILY counts a failure of the    *)
(* server and requeues the query with that status and one more try; any     *)
(* other failed open and a write out of memory end the query with that      *)
(* status at once, and the dispatch of a new query that ends so closes no   *)
(* connection and leaves every other query alone                            *)
C16_DispatchFailures ==
  /\ \A s \in {DoTick(in) : in \in DispatchTickInputs}
              \cup {DoSubmit(in) : in \in DispatchSubmitInputs} :
       \A i \in 1..Len(s.log) :
         /\ s.log[i].e = "pick" /\ s.log[i].sv = NULL =>
              EndsThere(s, i + 1, s.log[i].q, ENOSERVER)
         /\ s.log[i].e = "open"
              /\ s.log[i].status \in {ECONNREFUSED, EBADFAMILY} =>
              LET p == s.log[PickBefore(s, i)]
              IN  /\ i + 2 <= Len(s.log)
                  /\ s.log[i + 1].e = "fail"
                  /\ s.log[i + 1].sv = p.sv
                  /\ s.log[i + 1].fails = p.srv[p.sv].consec_failures + 1
                  /\ s.log[i + 2].e = "requeue"
                  /\ s.log[i + 2].q = p.q
                  /\ s.log[i + 2].status = s.log[i].status
                  /\ s.log[i + 2].inc
                  /\ s.log[i + 2].try = p.try + 1
         /\ Fatal(s, i) =>
              EndsThere(s, i + 1, s.log[PickBefore(s, i)].q, s.log[i].status)
  /\ \A in \in DispatchSubmitInputs :
       LET s == DoSubmit(in)
       IN  \A i \in 1..Len(s.log) :
             (Fatal(s, i) \/ (s.log[i].e = "pick" /\ s.log[i].sv = NULL)) =>
               /\ s.ret = IF s.log[i].e = "pick" THEN ENOSERVER
                          ELSE s.log[i].status
               /\ Events(s, "close") = {}
               /\ \A c \in OpenConns : s.conn[c].open
               /\ \A q \in Qids \ {in.q} : Untouched(s, q)

(* a second query cannot be written for lack of memory and ends with NOMEM *)
(* while the first one waits on the connection                              *)
C16_SecondQueryOutOfMemory ==
  \E in \in DispatchSubmitInputs :
    LET s == DoSubmit(in)
    IN  /\ \E q \in byqid : q # in.q /\ queries[q].conn # NULL
        /\ \E i \in Events(s, "write") : s.log[i].status = ENOMEM
        /\ CalledBackOnce(s, in.q, ENOMEM, 0)
        /\ s.ret = ENOMEM

(* ------------------------------ C17 ------------------------------------ *)
(* the calls of ares__requeue_query, made while a new query is dispatched, *)
(* for a query that is on no connection and in no index of deadlines        *)
Unattached(s) == {i \in Events(s, "requeue") : ~s.log[i].att}

Sub(s, i) == i + 1 <= Len(s.log) /\ s.log[i + 1].e = "submit"

(* the queue-empty observer was notified at event k *)
NotifiedAt(s, k) == k <= Len(s.log) /\ s.log[k].e = "empty"

(* C18: the callback runs while the query is still in the table; the query *)
(* is detached and freed next; the queue-empty observer is notified last,   *)
(* if and only if the table is empty then: when the ended query was the     *)
(* last one and its callback submitted nothing, but not when other queries  *)
(* are in flight, nor when the callback submitted a query that is in the    *)
(* table; a query that ends inside the callback that submitted it finds the *)
(* ending query still in the table and notifies nobody                      *)
C18_EndQueryOrder ==
  \A s \in {DoTick(in) : in \in ReentrantTickInputs}
          \cup {DoSubmit(in) : in \in ReentrantSubmitInputs} :
    \A i \in Events(s, "cb") :
      LET q == s.log[i].q
      IN  /\ s.log[i].live /\ q \in s.log[i].table
          /\ s.q[q].st = "done" /\ q \notin s.allq
          /\ ~Sub(s, i) /\ QEvents(s, "submit", q) = {} =>
               (NotifiedAt(s, i + 1) <=> s.log[i].table = {q})
          /\ Sub(s, i) =>
               LET x == s.log[i + 1].q
               IN  IF x \in s.allq
                   THEN \A k \in (i + 1)..Len(s.log) : ~NotifiedAt(s, k)
                   ELSE \E c \in QEvents(s, "cb", x) :
                          /\ c > i
                          /\ s.log[c].table = s.log[i].table \cup {x}
                          /\ \A k \in (i + 1)..c : ~NotifiedAt(s, k)
                          /\ NotifiedAt(s, c + 1) <=> s.log[i].table = {q}

(* the last query in flight is answered, its callback submits the next  *)
(* query, and the queue-empty observer is not notified                   *)
C18_SubmittedInCallback ==
  \E in \in ReentrantTickInputs :
    LET s == DoTick(in)
    IN  \E i \in Events(s, "cb") :
          /\ s.log[i].table = {s.log[i].q}
          /\ s.log[i].status = SUCCESS
          /\ Sub(s, i)
          /\ s.log[i + 1].q \in s.allq
          /\ Events(s, "empty") = {}

(* ------------------------------ C19 ------------------------------------ *)
(* the deadline of q is at or before the clock *)
Due(q) == ~TimeLess(clock, queries[q].timeout)

(* the calls of the tick entry point with nothing to read or write *)
TimeoutTicks == {in \in PairTickInputs : in.read_fd = NULL /\ in.write_fd = NULL}

(* the requeues of q by process_timeouts *)
Expiries(s, q) == {i \in QEvents(s, "requeue", q) : s.log[i].status = ETIMEOUT}

(* timeouts of q as the handler leaves it, or as its callback was given it *)
TimeoutsSeen(s, q) ==
  IF s.q[q].st = "live" THEN {s.q[q].timeouts}
  ELSE {s.log[i].timeouts : i \in QEvents(s, "cb", q)}

(* C19: process_timeouts expires a query only if its deadline is at or     *)
(* before now, at most once, counting one timeout for it and one failure    *)
(* for a server right before requeueing it with TIMEOUT and one more try;   *)
(* when no transport call fails it expires every such query, counts the     *)
(* failure for the server of the query's connection, and leaves every query *)
(* with a later deadline untouched; when it returns no query in             *)
(* queries_by_timeout has a deadline at or before now                       *)
C19_ExpiresTheOverdue ==
  \A in \in TimeoutTicks :
    LET s == DoTick(in)
    IN  /\ \A q \in SeqElems(s.tq) : TimeLess(clock, s.q[q].timeout)
        /\ \A q \in SeqElems(tq) :
             /\ Cardinality(Expiries(s, q)) <= 1
             /\ ~Due(q) => Expiries(s, q) = {}
                            /\ TimeoutsSeen(s, q) = {queries[q].timeouts}
             /\ ~Due(q) /\ in.calm => Untouched(s, q)
             /\ Due(q) /\ in.calm => Expiries(s, q) # {}
             /\ \A i \in Expiries(s, q) :
                  /\ s.log[i].inc
                  /\ s.log[i - 1].e = "fail"
                  /\ TimeoutsSeen(s, q) = {queries[q].timeouts + 1}
                  /\ in.calm =>
                       /\ s.log[i].try = queries[q].try_count + 1
                       /\ s.log[i - 1].sv = conns[queries[q].conn].server

(* two queries wait, the deadline of one is exactly now and the deadline *)
(* of the other is later: the tick expires the first one only            *)
C19_DeadlineIsNow ==
  \E in \in TimeoutTicks : \E q, r \in SeqElems(tq) :
    /\ in.calm
    /\ queries[q].timeout = clock
    /\ TimeLess(clock, queries[r].timeout)
    /\ Expiries(DoTick(in), q) # {}
    /\ Untouched(DoTick(in), r)

(* C19 as stated, its last part but one: process_timeouts never touches a *)
(* query whose deadline is after now, so that a tick with nothing to read  *)
(* or write leaves every such query as it was                              *)
C19_LaterDeadlineUntouched ==
  \A in \in TimeoutTicks : \A q \in SeqElems(tq) :
    ~Due(q) => Untouched(DoTick(in), q)

(* ------------------------------ C20 ------------------------------------ *)
(* the phase of a tick an event of the log belongs to, 0 for the events *)
(* that can belong to several                                           *)
Phase(s, i) ==
  CASE s.log[i].e = "ans" -> 1
    [] s.log[i].e = "requeue" /\ s.log[i].status = ETIMEOUT -> 2
    [] s.log[i].e = "writable" -> 3
    [] s.log[i].e = "cleanup" -> 4
    [] OTHER -> 0

ReadPhase(in) ==
  call("process_read", Enter(in.o), <<in.read_fds, in.read_fd, in.rd, clock>>)

ReadIn(s, c) == \E i \in Events(s, "ans") : s.log[i].c = c

(* C21: in a tick driven by a readiness set, every connection that is      *)
(* flagged readable and is still open is read in that tick, whatever the   *)
(* handling of the connections before it closed.                           *)
C21_EveryReadableIsRead ==
  \A in \in SelectTickInputs :
    LET s == ReadPhase(in)
    IN  ~s.ub => \A c \in in.read_fds.fds : s.conn[c].open => ReadIn(s, c)

(* ------------------------------ pending writes ------------------------- *)
(* what the handlers of the readiness-set specification can return *)
SelectOutcomes ==
  {DoSubmit(in) : in \in PairSubmitInputs}
  \cup {DoTick(in) : in \in SelectTickInputs}
  \cup {ares_process_pending_write(Enter(in.o)) : in \in PendingInputs}

(* the writes of a query to a connected TCP connection, with a             *)
(* notify_pending_write_cb configured                                       *)
Deferrable(s) ==
  {i \in Events(s, "write") :
     s.ch.notify_pending_write_cb /\ s.log[i].tcp /\ s.log[i].connected}

(* C22: with a notify_pending_write_cb configured, every dispatch on a     *)
(* connected TCP connection sets notify_pending_write, invokes the         *)
(* callback and returns without flushing, also when the flag is already    *)
(* set.                                                                     *)
C22_DispatchLeavesWriteToHost ==
  \A s \in SelectOutcomes :
    \A i \in Deferrable(s) :
      i > 1 /\ s.log[i - 1].e = "notify_pending_write"

(* the dispatches made while the flag is unset do leave the write to the   *)
(* host                                                                     *)
C22_FirstDispatchLeavesWrite ==
  \A s \in SelectOutcomes :
    \A i \in Deferrable(s) :
      ~s.log[i].npw => i > 1 /\ s.log[i - 1].e = "notify_pending_write"

C22_DispatchWhileArmed ==
  \E s \in SelectOutcomes :
    \E i \in Deferrable(s) : s.log[i].npw /\ s.log[i - 1].e = "flush"

(* ares_process_pending_write as it returns *)
Pending(in) == ares_process_pending_write(Enter(in.o))

(* the TCP connections of the servers when ares_process_pending_write is   *)
(* called                                                                   *)
TcpConns == {servers[sv].tcp_conn : sv \in Servers} \ {NULL}

FlushedIn(s, c) == \E i \in Events(s, "flush") : s.log[i].c = c

ClosedIn(s, c) == \E i \in Events(s, "close") : s.log[i].c = c

(* a failed flush is followed by the failure of the server being counted   *)
(* and the connection being closed                                          *)
FlushErrorCloses(s) ==
  \A i \in Events(s, "flush") :
    s.log[i].status # SUCCESS =>
      \E j \in {i + 1, i + 2} :
        /\ j + 1 <= Len(s.log)
        /\ j = i + 2 => s.log[i + 1].e = "write"
        /\ s.log[j].e = "fail" /\ s.log[j].sv = conns[s.log[i].c].server
        /\ s.log[j + 1].e = "close" /\ s.log[j + 1].c = s.log[i].c

(* the flag is clear when the first query is dispatched, and it is set on  *)
(* return exactly when a dispatch has set it                                *)
ClearedFirst(s) ==
  /\ \A i \in Events(s, "write") :
       (\A j \in Events(s, "write") : i <= j) => ~s.log[i].npw
  /\ s.npw = (Events(s, "notify_pending_write") # {})

(* C23: ares_process_pending_write does nothing when notify_pending_write  *)
(* is unset; when it is set, the flag is cleared before any flush, the TCP *)
(* connection of every server that has one is flushed, a flush error       *)
(* closes the connection as a critical failure, and a dispatch during the  *)
(* flushing re-arms the flag, which stays set on return.                   *)
C23_PendingWrite ==
  \A in \in PendingInputs :
    LET s == Pending(in)
    IN  /\ ~npw => s = Enter(in.o)
        /\ npw => /\ ClearedFirst(s)
                  /\ FlushErrorCloses(s)
                  /\ \A c \in TcpConns : FlushedIn(s, c) \/ ClosedIn(s, c)

(* the same, for the servers the loop comes to *)
C23_PendingWriteReached ==
  \A in \in PendingInputs :
    LET s == Pending(in)
    IN  /\ ~npw => s = Enter(in.o)
        /\ npw => /\ ClearedFirst(s)
                  /\ FlushErrorCloses(s)
                  /\ \A c \in TcpConns :
                       \/ FlushedIn(s, c) \/ ClosedIn(s, c)
                       \/ \E i \in Events(s, "flush") :
                            /\ s.log[i].status # SUCCESS
                            /\ s.log[i].c # c

(* a flush is refused, the connection is closed and its query is           *)
(* dispatched on the connected TCP connection of another server: the flag  *)
(* is set again when ares_process_pending_write returns                     *)
C23_Rearmed ==
  \E in \in PendingInputs :
    LET s == Pending(in)
    IN  /\ npw /\ s.npw
        /\ \E i \in Events(s, "flush") : s.log[i].status # SUCCESS

(* ------------------------------ fatal conditions ----------------------- *)
(* events i and i + 1 of the handler: the failure of the server of         *)
(* connection c is counted, then c is closed                               *)
CriticalClose(s, i, c) ==
  /\ i + 1 <= Len(s.log)
  /\ s.log[i].e = "fail"
  /\ s.log[i].sv = conns[c].server
  /\ s.log[i + 1].e = "close"
  /\ s.log[i + 1].c = c

(* event i of the handler: c is closed and no failure has been counted *)
PlainClose(s, i, c) ==
  /\ i <= Len(s.log)
  /\ s.log[i].e = "close"
  /\ s.log[i].c = c
  /\ \A j \in Events(s, "requeue") :
       s.log[j].status = SUCCESS \/ \E k \in Events(s, "fail") : k < j

FailedRead(in, term) ==
  in.read_fd # NULL /\ in.rd.data = <<>> /\ in.rd.term = term

(* the fatal conditions other than running out of memory *)
FatalElsewhere(in, s) ==
  /\ FailedRead(in, READ_ERR) => CriticalClose(s, 1, in.read_fd)
  /\ \A i \in Events(s, "ans") :
       s.log[i].ret # SUCCESS => CriticalClose(s, i + 1, s.log[i].c)
  /\ \A i \in Events(s, "flush") :
       (s.log[i].status # SUCCESS /\ i > 1 /\ s.log[i - 1].e = "writable")
         => CriticalClose(s, i + 1, s.log[i].c)

(* C24 as stated: every connection-fatal condition closes the connection   *)
(* with the server's consec_failures incremented before its queries are    *)
(* requeued: a read error other than WOULDBLOCK, NOMEM during the read, a  *)
(* non-success status of process_answer, a flush error in the write phase. *)
C24_EveryFatalIsCritical ==
  \A in \in TickInputs :
    LET s == DoTick(in)
    IN  /\ FatalElsewhere(in, s)
        /\ FailedRead(in, READ_NOMEM) => CriticalClose(s, 1, in.read_fd)

(* C24: a read error other than WOULDBLOCK, a non-success status of        *)
(* process_answer and a flush error in the write phase close the           *)
(* connection with the server's consec_failures incremented first; NOMEM  *)
(* during the read closes the connection without counting a failure.       *)
C24_FatalConditions ==
  \A in \in TickInputs :
    LET s == DoTick(in)
    IN  /\ FatalElsewhere(in, s)
        /\ FailedRead(in, READ_NOMEM) => PlainClose(s, 1, in.read_fd)

(* a read runs out of memory on a connection that carries a query *)
C24_OutOfMemoryWithQuery ==
  \E in \in TickInputs :
    /\ FailedRead(in, READ_NOMEM)
    /\ conns[in.read_fd].queue # <<>>
    /\ Events(DoTick(in), "requeue") # {}

(* ------------------------------ malformed frames ----------------------- *)
(* C25: a frame that fails to parse makes process_answer return BADRESP    *)
(* before any query is touched; read_answers then closes the connection as *)
(* a critical failure and stops, the frames behind the malformed one are   *)
(* not processed. When a read of the loop has buffered a frame and the     *)
(* next read fails with an error other than WOULDBLOCK, the connection is  *)
(* closed as a critical failure and the buffered frame is not processed.   *)
C25_MalformedStopsReading ==
  \A in \in BurstInputs :
    LET s == DoTick(in)
        c == in.read_fd
    IN  /\ Frame(in) = Malformed =>
             /\ Events(s, "ans") = {1}
             /\ s.log[1].path = "badresp" /\ s.log[1].ret = EBADRESP
             /\ s.log[1].q = NULL
             /\ CriticalClose(s, 2, c)
             /\ \A i \in Events(s, "requeue") : s.log[i].status = EBADRESP
        /\ (in.rd.term = READ_ERR /\ ~conns[c].tcp) =>
             /\ Events(s, "ans") = {}
             /\ CriticalClose(s, 1, c)
             /\ \A i \in Events(s, "cb") : s.log[i].status # SUCCESS

(* the answer to a query in flight on the connection is in the buffer,     *)
(* behind a malformed frame or in front of a failing read: the query is    *)
(* requeued, not completed                                                 *)
C25_AnswerLost ==
  \E in \in BurstInputs :
    LET s == DoTick(in)
        q == in.rd.data[Len(in.rd.data)].id
    IN  /\ ~conns[in.read_fd].tcp
        /\ queries[q].conn = in.read_fd
        /\ Events(s, "ans") \subseteq {1}
        /\ QEvents(s, "requeue", q) # {}
        /\ \A i \in QEvents(s, "cb", q) : s.log[i].status # SUCCESS

(* ------------------------------ the time of a tick --------------------- *)
(* the clock as the functions called during the tick read it *)
Later(in) == timeadd(clock, in.o.drift)

(* the queries the tick leaves dispatched by it carry the sample of the    *)
(* tick (the dispatches that follow the closing of a connection apart: the *)
(* requeue of its queries is given the time by ares__close_connection),    *)
(* and the queries it expires were due at that sample                      *)
DeadlinesAt(s, now) ==
  /\ \A q \in s.byqid :
       (/\ QEvents(s, "send", q) # {}
        /\ \A j \in QEvents(s, "send", q), k \in Events(s, "close") : j < k) =>
         /\ s.q[q].ts = now
         /\ s.q[q].timeout =
              timeadd(now, ares__calc_query_timeout(
                             s, q, s.conn[s.q[q].conn].server))
  /\ \A i \in Events(s, "requeue") :
       s.log[i].status = ETIMEOUT => timedout(now, queries[s.log[i].q].timeout)

(* the retry times set and the retry times tested are taken at time t *)
RetriesAt(s, t) ==
  /\ \A i \in Events(s, "fail") :
       s.log[i].retry = timeadd(t, s.ch.server_retry_delay)
  /\ \A i \in Events(s, "pick") :
       LET e == [s.log[i] EXCEPT !.now = t]
       IN  (/\ s.ch.server_retry_chance > 0
            /\ s.o.rfail % s.ch.server_retry_chance = 0
            /\ \E x \in Servers : e.srv[x].consec_failures > 0)
           => e.sv = IF RetryOf(e) = NULL THEN e.order[1] ELSE RetryOf(e)

Given(q) ==
  (queries[q].timeout.sec - queries[q].ts.sec) * 1000
  + (queries[q].timeout.usec - queries[q].ts.usec) \div 1000

Rounds(q) == queries[q].try_count \div Len(order)

(* the doubled base timeout under the upper limit, if there is one *)
Ceiling(q) ==
  LET doubled == channel.timeout * Pow2(Rounds(q))
  IN  IF channel.maxtimeout # 0 /\ channel.maxtimeout < doubled
      THEN channel.maxtimeout ELSE doubled

(* C27: the timeout of every query in flight is at least the base timeout;  *)
(* it is the base timeout in the first round of tries; in a later round it  *)
(* is at least half of the doubled base timeout under the upper limit and   *)
(* at most that value, or the base timeout where the upper limit is below   *)
(* it; the deadline is the time of the dispatch plus the timeout, with its  *)
(* microseconds below one million.                                          *)
C27_TimeoutRange ==
  \A q \in byqid :
    LET base == channel.timeout
        tp   == Given(q)
    IN  /\ queries[q].conn # NULL
        /\ tp >= base
        /\ Rounds(q) = 0 => tp = base
        /\ Rounds(q) > 0 =>
             /\ 2 * tp >= Ceiling(q)
             /\ tp <= IF Ceiling(q) < base THEN base ELSE Ceiling(q)
        /\ queries[q].timeout = timeadd(queries[q].ts, tp)
        /\ queries[q].timeout.usec \in 0..999999
        /\ queries[q].ts.usec \in 0..999999

(* a query in a later round whose timeout is the upper limit, above the     *)
(* base timeout and below the doubled one, and whose deadline carries its   *)
(* microseconds into the seconds                                            *)
C27_CappedLaterRound ==
  \E q \in byqid :
    /\ Rounds(q) > 0
    /\ channel.maxtimeout # 0
    /\ Given(q) = channel.maxtimeout
    /\ channel.timeout < Given(q)
    /\ Given(q) < channel.timeout * Pow2(Rounds(q))
    /\ queries[q].ts.usec + (Given(q) % 1000) * 1000 >= 1000000

(* ------------------------ dispatch and requeue -------------------------- *)
(* the dispatches of query q that a requeue of q has made *)
Reentries(s, q) ==
  {i \in QEvents(s, "pick", q) :
     i > 1 /\ s.log[i - 1].e = "requeue" /\ s.log[i - 1].q = q}

(* what a handler does with query q, whose try count was try0 before it *)
BoundedBy(s, q, try0) ==
  LET max_tries == Len(order) * channel.tries
  IN  /\ \A i \in Reentries(s, q) :
           /\ s.log[i - 1].inc
           /\ s.log[i - 1].try < max_tries
           /\ s.log[i].try = s.log[i - 1].try
           /\ s.log[i].try > try0
      /\ \A i \in QEvents(s, "pick", q), j \in Reentries(s, q) :
           i < j => s.log[i].try < s.log[j].try
      /\ \A i \in QEvents(s, "requeue", q) :
           IF s.log[i].try < max_tries /\ ~s.log[i].nr
           THEN i + 1 \in Reentries(s, q)
           ELSE i < Len(s.log) /\ s.log[i + 1].e = "cb" /\ s.log[i + 1].q = q
      /\ Cardinality(Reentries(s, q)) <= max_tries - try0
      /\ QEvents(s, "exhaust", q) # {} => s.q[q].st # "live"

(* C28: in one handler every dispatch of a query that a requeue makes comes *)
(* after the try count was incremented and while it is below max_tries, so  *)
(* the try counts of these dispatches rise, there are at most               *)
(* max_tries - try_count of them, and the requeue that finds the tries used *)
(* up ends the query.                                                       *)
C28_RecursionBounded ==
  /\ \A in \in SubmitInputs : BoundedBy(DoSubmit(in), in.q, 0)
  /\ \A in \in TickInputs :
       \A q \in byqid : BoundedBy(DoTick(in), q, queries[q].try_count)

(* a new query whose every dispatch fails: it is dispatched max_tries times *)
(* and then ended                                                           *)
C28_EveryTryFails ==
  \E in \in SubmitInputs :
    LET s == DoSubmit(in)
    IN  /\ Len(order) * channel.tries > 1
        /\ Cardinality(QEvents(s, "pick", in.q)) = Len(order) * channel.tries
        /\ Cardinality(Reentries(s, in.q)) = Len(order) * channel.tries - 1
        /\ QEvents(s, "exhaust", in.q) # {}
        /\ s.q[in.q].st # "live"

(* --------------------------- once over TCP ------------------------------ *)
(* what a handler does with a query that was switched to TCP before it *)
StaysOnTcp(s, q) ==
  /\ s.q[q].st = "live" =>
       /\ s.q[q].using_tcp
       /\ s.q[q].conn # NULL => s.conn[s.q[q].conn].tcp
  /\ \A i \in QEvents(s, "write", q) : s.log[i].tcp
  /\ \A i \in QEvents(s, "send", q) : s.log[i].tcp

(* C29: a query switched to TCP stays a TCP query as long as it lives: it   *)
(* awaits its answer on a TCP connection, and every write and every         *)
(* dispatch of it that a tick or a submission makes, after a timeout, a     *)
(* failure answer, a connection error or on another server, goes to a TCP   *)
(* connection.                                                              *)
C29_TcpIsKept ==
  \A q \in byqid :
    queries[q].using_tcp =>
      /\ queries[q].conn # NULL => conns[queries[q].conn].tcp
      /\ \A in \in TickInputs : StaysOnTcp(DoTick(in), q)
      /\ \A in \in PairSubmitInputs : StaysOnTcp(DoSubmit(in), q)

(* a query on TCP is requeued and goes to the TCP connection of another     *)
(* server                                                                   *)
C29_TcpOnOtherServer ==
  \E in \in TcpTickInputs :
    \E q \in byqid :
      LET s == DoTick(in)
      IN  /\ queries[q].using_tcp
          /\ QEvents(s, "requeue", q) # {}
          /\ QEvents(s, "send", q) # {}
          /\ s.q[q].st = "live"
          /\ s.conn[s.q[q].conn].tcp
          /\ s.conn[s.q[q].conn].server # conns[queries[q].conn].server

(* ---------------------- answers on another connection ------------------- *)
(* a matching answer is read from a connection other than the one the      *)
(* query is attached to                                                     *)
Crossed(in) ==
  /\ Matches(in)
  /\ queries[Frame(in).id].conn # NULL
  /\ queries[Frame(in).id].conn # in.read_fd

(* the places in the log where a server is marked good or failed *)
Accounting(s) == Events(s, "good") \cup Events(s, "fail")

FirstOf(S) == CHOOSE i \in S : \A j \in S : i <= j

(* C30: a matching response read from connection c for a query attached to *)
(* another connection is handled as the answer of that query: the query is  *)
(* taken off its connection, and the server of c, not the server of the     *)
(* query's connection, is marked good (the query completing with SUCCESS)   *)
(* or gets the failure counted (the query being requeued).                  *)
C30_MatchedByQid ==
  \A in \in PairTickInputs :
    Crossed(in) =>
      LET s  == DoTick(in)
          m  == Frame(in)
          q  == m.id
          c  == in.read_fd
          c2 == queries[q].conn
          sv == conns[c].server
      IN  /\ \E i \in Events(s, "ans") :
               /\ s.log[i].q = q
               /\ s.log[i].c = c
               /\ s.log[i].path = IF m.rcode = RC_SERVFAIL THEN "rcode"
                                  ELSE "accept"
          /\ Accounting(s) # {}
          /\ LET e == s.log[FirstOf(Accounting(s))]
             IN  /\ e.sv = sv
                 /\ IF m.rcode = RC_SERVFAIL
                    THEN e.e = "fail" /\ e.fails = servers[sv].consec_failures + 1
                    ELSE e.e = "good" /\ e.fails = 0
          /\ m.rcode # RC_SERVFAIL =>
               /\ CalledBackOnce(s, q, SUCCESS, queries[q].timeouts)
               /\ q \notin SeqElems(s.conn[c2].queue)
          /\ m.rcode = RC_SERVFAIL =>
               /\ QEvents(s, "requeue", q) # {}
               /\ LET r == s.log[FirstOf(QEvents(s, "requeue", q))]
                  IN  /\ r.status = ESERVFAIL
                      /\ \A k \in ConnIds : q \notin SeqElems(r.idx[3][k])
          /\ (Cardinality(Accounting(s)) = 1 /\ conns[c2].server # sv) =>
               /\ s.srv[conns[c2].server].consec_failures
                    = servers[conns[c2].server].consec_failures
               /\ s.srv[conns[c2].server].next_retry_time
                    = servers[conns[c2].server].next_retry_time

(* the late answer of the server a query was sent to before its timeout:   *)
(* the query awaits its answer from another server, the answer completes   *)
(* it, and the server that had the failure counted is good again           *)
C30_LateAnswerOfFirstServer ==
  \E in \in PairTickInputs :
    /\ Crossed(in)
    /\ Frame(in).rcode # RC_SERVFAIL
    /\ conns[queries[Frame(in).id].conn].server # conns[in.read_fd].server
    /\ queries[Frame(in).id].timeouts > 0
    /\ servers[conns[in.read_fd].server].consec_failures > 0
    /\ LET s == DoTick(in)
       IN  /\ s.srv[conns[in.read_fd].server].consec_failures = 0
           /\ s.q[Frame(in).id].st = "done"
           /\ Cardinality(Accounting(s)) = 1

(* ----------------------- the query in its callback ---------------------- *)
(* the callback at place i of the log is the one of an accepted answer *)
OnAccept(s, i) ==
  \E j \in Events(s, "ans") :
    /\ s.log[j].path = "accept"
    /\ s.log[j].q = s.log[i].q
    /\ s.log[j].from <= i
    /\ i < j

(* what the callbacks of a handler see, and what is left after them *)
AttachedInCallback(s) ==
  \A i \in Events(s, "cb") :
    LET e == s.log[i]
    IN  /\ e.live
        /\ e.q \in e.idx[1]
        /\ e.q \in e.table
        /\ (i < Len(s.log) /\ s.log[i + 1].e = "submit") =>
             /\ s.log[i + 1].q # e.q
             /\ e.q \in s.log[i + 1].byqid
        /\ OnAccept(s, i) =>
             /\ e.q \in SeqElems(e.idx[2])
             /\ e.conn # NULL
             /\ \A c \in ConnIds : e.q \notin SeqElems(e.idx[3][c])
        /\ e.q \notin s.byqid
        /\ e.q \notin s.allq
        /\ e.q \notin SeqElems(s.tq)
        /\ \A c \in ConnIds : e.q \notin SeqElems(s.conn[c].queue)
        /\ s.q[e.q].st = "done"

(* C31: when the callback of a query runs the query is still in             *)
(* queries_by_qid and in the list of all queries, so a query submitted from *)
(* the callback gets another qid; the callback of an accepted answer finds  *)
(* the query still in queries_by_timeout with its connection set and no     *)
(* longer in any connection's list of queries; after the handler the query  *)
(* is in none of the indices.                                               *)
C31_AttachedInCallback ==
  /\ \A in \in ReentrantTickInputs : AttachedInCallback(DoTick(in))
  /\ \A in \in ReentrantSubmitInputs : AttachedInCallback(DoSubmit(in))

(* the callback of an accepted answer submits a query *)
C31_SubmitFromAcceptCallback ==
  \E in \in ReentrantTickInputs :
    LET s == DoTick(in)
    IN  \E i \in Events(s, "cb") :
          /\ OnAccept(s, i)
          /\ i < Len(s.log)
          /\ s.log[i + 1].e = "submit"
          /\ s.log[i + 1].q \in s.byqid
          /\ s.log[i].q \notin s.byqid

(* ------------------------ resends that cost no try ---------------------- *)
(* C32: when a truncated answer over UDP or a FORMERR answer without OPT RR *)
(* makes the query go out again and that dispatch works, the query keeps    *)
(* its try_count, its timeouts, its error_status and no_retries, no server  *)
(* is marked good or failed by the handling of that answer, and with no     *)
(* other query timing out in the tick the failure counts, the retry times   *)
(* and the order of the servers are those of before; the query              *)
(* is attached to the connection it went out on, its ts is the time of the  *)
(* tick and its deadline lies after it, and using_tcp is set (truncated     *)
(* answer) or the OPT RR is gone (FORMERR), the other of the two staying.   *)
C32_ResendCostsNoTry ==
  \A in \in TickInputs :
    (ForUpgrade(in) \/ ForDowngrade(in)) =>
      LET s == DoTick(in)
          q == Frame(in).id
      IN  (Works(in, s) /\ SentOnce(s, q)) =>
            /\ s.q[q].try_count = queries[q].try_count
            /\ s.q[q].timeouts = queries[q].timeouts
            /\ s.q[q].error_status = queries[q].error_status
            /\ s.q[q].no_retries = queries[q].no_retries
            /\ \A j \in Events(s, "ans") :
                 \A i \in Accounting(s) \cup Events(s, "requeue") :
                   i < s.log[j].from \/ i > j
            /\ QEvents(s, "requeue", q) = {}
            /\ (\A p \in byqid \ {q} : ~timedout(clock, queries[p].timeout)) =>
                 /\ \A sv \in Servers :
                      /\ s.srv[sv].consec_failures = servers[sv].consec_failures
                      /\ s.srv[sv].next_retry_time = servers[sv].next_retry_time
                 /\ s.order = order
                 /\ Accounting(s) = {}
            /\ q \in SeqElems(s.conn[s.q[q].conn].queue)
            /\ s.q[q].ts = clock
            /\ TimeLess(clock, s.q[q].timeout)
            /\ IF ForUpgrade(in)
               THEN s.q[q].using_tcp /\ s.q[q].opt = queries[q].opt
               ELSE ~s.q[q].opt /\ s.q[q].using_tcp = queries[q].using_tcp

(* a query that was requeued once with a failure status gets a truncated   *)
(* answer and goes out over TCP with the same count of tries               *)
C32_UpgradeAfterRequeue ==
  \E in \in TickInputs :
    /\ ForUpgrade(in)
    /\ queries[Frame(in).id].try_count > 0
    /\ queries[Frame(in).id].error_status # SUCCESS
    /\ LET s == DoTick(in)
       IN  /\ Works(in, s)
           /\ SentOnce(s, Frame(in).id)
           /\ s.q[Frame(in).id].using_tcp
           /\ s.q[Frame(in).id].try_count = queries[Frame(in).id].try_count

====
